---- MODULE Spec2Model ----
(***************************************************************************)
(* Control loop of the browser-automation agent:                           *)
(*   - browserAutomationWorkflowEnhanced (planning, page context, the      *)
(*     execution/evaluation retry loop, summarization),                    *)
(*   - evaluationStep and shouldImmediatelyRetry,                          *)
(*   - the tool-call handling of enhancedStreamingStep together with the   *)
(*     approval hooks of createEnhancedBrowserToolSet.                     *)
(*                                                                         *)
(* Optional values (undefined / null) are sequences of length 0 or 1.      *)
(* Texts are sequences of lines, each line a tuple.  Scores are in tenths. *)
(***************************************************************************)
EXTENDS Integers, Sequences, FiniteSets, TLC

\* ------------------------------------------------------------------------
\* Program constants and bounds
\* ------------------------------------------------------------------------

\* let maxRetries = 2
maxRetries == 2

\* longest plan the planner hands over in the model
MaxPlanSteps == 2

\* longest steps array the planning model may answer with
MaxModelSteps == 2

\* approval requests followed through the modal
MaxOpenings == 2

\* tool calls the model may emit during one execution attempt
MaxToolCalls == 2

\* text.length > 100 asks for approval of a type call
approvalTextLength == 100

None == << >>

Some(v) == << v >>

\* ------------------------------------------------------------------------
\* Data
\* ------------------------------------------------------------------------

Phases == {"plan", "context", "execute", "evaluate", "summarize"}

TaskIds == {"plan", "context", "execute", "evaluate", "summarize"}

Qualities == {"excellent", "good", "acceptable", "poor", "failed"}

PlanStepPool ==
    { [action |-> "navigate", reasoning |-> "open the page"],
      [action |-> "getPageContext", reasoning |-> "read the title"] }

Plans ==
    UNION { [1..n -> PlanStepPool] : n \in 1..MaxPlanSteps }

IssueLists == { << >>, << "z" >> }

RetryStrategies ==
    { [approach |-> "retry", focusAreas |-> << "x" >>, modifications |-> << "y" >>] }

ScoreSamples == {3, 9}

\* objects the evaluator's generateObject call can return (EvaluationSchema)
ModelEvaluations ==
    { [quality |-> q, score |-> s, completeness |-> s, correctness |-> s,
       issues |-> i, successes |-> << >>, recommendations |-> << >>,
       shouldRetry |-> r, shouldProceed |-> p, retryStrategy |-> st] :
         q \in Qualities, s \in ScoreSamples, i \in IssueLists,
         r \in BOOLEAN, p \in BOOLEAN,
         st \in {None} \cup { Some(x) : x \in RetryStrategies } }

\* outcomes of a generation call: an object, or a failure
EvalGenOutcomes ==
    { [ok |-> TRUE, object |-> Some(e)] : e \in ModelEvaluations }
      \cup { [ok |-> FALSE, object |-> None] }

\* errors enhancedStreamingStep can reject with
StreamErrors ==
    { [name |-> "AI_NoOutputGeneratedError", message |-> "stream ended"],
      [name |-> "Error", message |-> "No output generated. Check the stream for errors."],
      [name |-> "AbortError", message |-> "The operation was aborted"],
      [name |-> "Error", message |-> "EnhancedStreamingStep: Invalid messages input"] }

\* messages matched by /no output generated/i
NoOutputMessages ==
    { "No output generated. Check the stream for errors." }

\* results of a successful enhancedStreamingStep
StreamResults ==
    { [fullText |-> << << "model", "done" >> >>, finishReason |-> f] :
         f \in {"stop", "tool-calls"} }

\* ------------------------------------------------------------------------
\* State
\* ------------------------------------------------------------------------

VARIABLES
    pc,                  \* control position of the workflow run
    hasApiKey,           \* input.settings.apiKey is set
    hasInitialContext,   \* input.initialContext.pageContext is set
    inProgress,          \* awaited phase calls that have not settled yet
    phaseLog,            \* phases in the order they were entered
    tasks,               \* Task Ledger: task id -> status
    plan,                \* planning.result.plan.steps
    pageContextSource,   \* where pageContext came from
    pageContextStepCalled, \* pageContextStep(context.executeTool) was called
    systemPrompt,        \* plan block followed by the retry blocks
    retryCount,
    attempts,            \* invocations of enhancedStreamingStep in this run
    evaluationResult,
    evalGenFailed,       \* the last evaluator generation call failed
    evalRaised,          \* the last evaluationStep call raised to the workflow
    lastGate,            \* evaluation and verdict of the last retry gate
    fallbackSummaryText,
    streaming,
    summarization,
    summarizerCalls,     \* invocations of summarizationStep in this run
    summaryGenFailed,    \* the summarizer's generation call failed
    streamError,         \* the error the last enhancedStreamingStep rejected with
    output,              \* the WorkflowOutput returned
    raisedError,         \* the error re-thrown to the caller
    hasApprovalHandler,  \* context.onApprovalRequired is supplied
    sdkHonoursNeedsApproval, \* the SDK build consults experimental_needsApproval
    calls,               \* tool calls of the current execution attempt
    messageToolExecutions, \* ToolExecution entries of the assistant message
    toolExecutions,      \* tool results collected by enhancedStreamingStep
    approvalsRequested,
    approvalResolver,    \* the approval request the modal will answer
    streamDone,          \* the full stream has been consumed
    abortSignal,         \* context.abortSignal, and whether it fired in the Execution Loop
    plannerPc,           \* control position of generateExecutionPlan
    modelText,           \* what the planner's generation call delivered
    planningResult,      \* the PlanningResult generateExecutionPlan returned
    invocations,         \* executeTool invocations made for one tool call, in order
    agentSteps,          \* what prepareStep and stopWhen read of the agent's steps
    toolChoice,          \* the tool choice the agent's latest step ran with
    agentStatus,         \* whether the agent loop goes on, and why it ended
    userQuery,           \* the query the fallback heuristics are computed for
    heuristics,          \* complexityScore and confidence of each fallback call
    userIntent,          \* context.messages[0].content
    telemetry,           \* agentic telemetry events logged so far
    telemetryRun,        \* attempts made, the last streaming.toolExecutions, whether the run is over
    conversation,        \* the messages of the chat store
    contextMessages,     \* context.messages, the array the caller handed over
    attemptMessages,     \* streamingInput.messages of the latest attempt
    browserAction,       \* the executeBrowserAction call that is followed
    approvalModal,       \* the ApprovalModal as rendered by the side panel
    modalLog             \* per opening of the modal: the callbacks it invoked

wvars ==
    << pc, hasApiKey, hasInitialContext, inProgress, phaseLog, tasks, plan,
       pageContextSource, pageContextStepCalled, systemPrompt, retryCount, attempts,
       evaluationResult, evalGenFailed, evalRaised, lastGate, fallbackSummaryText, streaming,
       summarization, summarizerCalls, summaryGenFailed, streamError, output,
       raisedError >>

tvars ==
    << hasApprovalHandler, sdkHonoursNeedsApproval, calls, messageToolExecutions,
       toolExecutions, approvalsRequested, approvalResolver, streamDone >>

pvars == << plannerPc, modelText, planningResult >>

evars == << invocations >>

lvars == << agentSteps, toolChoice, agentStatus >>

hvars == << userQuery, heuristics >>

mvars == << userIntent, telemetry, telemetryRun >>

cvars == << conversation, contextMessages, attemptMessages >>

bvars == << browserAction >>

ovars == << approvalModal, modalLog >>

\* everything a workflow action leaves alone
outsideWorkflow == << tvars, abortSignal, pvars, evars, lvars, hvars, mvars, contextMessages, bvars, ovars >>

\* everything an action of the execution attempt leaves alone
outsideAttempt == << wvars, abortSignal, pvars, evars, lvars, hvars, mvars, cvars, bvars, ovars >>

\* everything an action of the planner leaves alone
outsidePlanner == << wvars, tvars, abortSignal, evars, lvars, hvars, mvars, cvars, bvars, ovars >>

\* everything an action of the tool executor leaves alone
outsideExecutor == << wvars, tvars, abortSignal, pvars, lvars, hvars, mvars, cvars, bvars, ovars >>

\* everything a step of the agent loop leaves alone
outsideLoop == << wvars, tvars, abortSignal, pvars, evars, hvars, mvars, cvars, bvars, ovars >>

\* everything a call of the fallback heuristics leaves alone
outsideHeuristics == << wvars, tvars, abortSignal, pvars, evars, lvars, mvars, cvars, bvars, ovars >>

\* everything the telemetry of an attempt leaves alone
outsideTelemetry == << wvars, tvars, abortSignal, pvars, evars, lvars, hvars, cvars, bvars, ovars >>

vars == << wvars, tvars, abortSignal, pvars, evars, lvars, hvars, mvars, cvars, bvars, ovars >>

\* ------------------------------------------------------------------------
\* Evaluator (steps/evaluation-step.ts)
\* ------------------------------------------------------------------------

\* mutant: the retry strategy is not required
shouldImmediatelyRetry_NoStrategyCheck(evaluation) ==
    /\ evaluation.shouldRetry
    /\ evaluation.quality = "poor"
    /\ Len(evaluation.issues) > 0

\* the gate as a threshold on the score: retry below 0.7
shouldImmediatelyRetry_ByScore(evaluation) == evaluation.score < 7

\* the gate as the raw shouldRetry flag
shouldImmediatelyRetry_RawFlag(evaluation) == evaluation.shouldRetry

shouldImmediatelyRetry(evaluation) ==
    /\ evaluation.shouldRetry
    /\ evaluation.quality = "poor"
    /\ Len(evaluation.issues) > 0
    /\ evaluation.retryStrategy # None

\* mutant: the fallback asks for a retry and does not let the run proceed
evaluationStepFallback_Blocking ==
    [quality |-> "poor", score |-> 5, completeness |-> 5, correctness |-> 5,
     issues |-> << "Evaluation failed", "Error type", "Non-AI SDK error" >>,
     successes |-> << >>,
     recommendations |-> << "Retry evaluation", "Check model configuration",
                            "Verify execution result structure" >>,
     shouldRetry |-> TRUE, shouldProceed |-> FALSE, retryStrategy |-> None]

\* the value evaluationStep returns from its catch block
evaluationStepFallback ==
    [quality |-> "poor", score |-> 5, completeness |-> 5, correctness |-> 5,
     issues |-> << "Evaluation failed", "Error type", "Non-AI SDK error" >>,
     successes |-> << >>,
     recommendations |-> << "Retry evaluation", "Check model configuration",
                            "Verify execution result structure" >>,
     shouldRetry |-> FALSE, shouldProceed |-> TRUE, retryStrategy |-> None]

\* evaluationStep: the generated object, or the fallback when generation fails
evaluationStep(gen) ==
    IF gen.ok
      THEN [raised |-> FALSE, value |-> gen.object]
      ELSE [raised |-> FALSE, value |-> Some(evaluationStepFallback)]

\* ------------------------------------------------------------------------
\* Summarizer (lib/ai-sdk-summarizer.ts)
\* ------------------------------------------------------------------------

SummaryGenOutcomes ==
    { [ok |-> TRUE, text |-> << << "report" >> >>],
      [ok |-> TRUE, text |-> << >>],
      [ok |-> FALSE, text |-> << >>] }

\* mutant: the failure is thrown again instead of being reported
summarizeWithAiSdk_Rethrows(gen) ==
    IF gen.ok
      THEN [raised |-> FALSE, summary |-> gen.text, success |-> TRUE]
      ELSE [raised |-> TRUE, summary |-> << >>, success |-> FALSE]

\* summarizeWithAiSdk: generateText's text, or the caught failure
summarizeWithAiSdk(gen) ==
    IF gen.ok
      THEN [raised |-> FALSE, summary |-> gen.text, success |-> TRUE]
      ELSE [raised |-> FALSE, summary |-> << >>, success |-> FALSE]

\* summarizationStep delegates to the summarizer and adds nothing that raises
summarizationStep(gen) == summarizeWithAiSdk(gen)

\* ------------------------------------------------------------------------
\* Workflow helpers (workflows/browser-automation-workflow-enhanced.ts)
\* ------------------------------------------------------------------------

\* the ledger starts with the five workflow tasks, all pending
createWorkflowTaskManager == [t \in TaskIds |-> "pending"]

\* mutant: the new status is written to every task of the ledger
updateWorkflowTasks_Broadcast(ledger, taskId, status) ==
    [t \in DOMAIN ledger |-> status]

updateWorkflowTasks(ledger, taskId, status) ==
    IF taskId \notin DOMAIN ledger
      THEN ledger
      ELSE [ledger EXCEPT ![taskId] = status]

\* mutant: the call is started but not awaited
NotAwaited(running, phase) == running

\* `await`: the continuation runs once the awaited call has settled
Awaited(running, phase) == running \ {phase}

noOutputError(error) ==
    \/ error.name = "AI_NoOutputGeneratedError"
    \/ error.message \in NoOutputMessages

plannedSteps(steps) ==
    [idx \in 1..Len(steps) |->
        << "step", idx, steps[idx].action, steps[idx].reasoning >>]

\* mutant: the fallback text leaves the plan out
fallbackContent_NoPlan(steps) ==
    << << "warning: the language model returned no output" >>,
       << "" >>,
       << "Final summary (fallback): planned workflow steps were:" >>,
       << "(No steps available)" >>,
       << "" >>,
       << "verify credentials and network access, then retry" >> >>

fallbackContent(steps) ==
    << << "warning: the language model returned no output" >>,
       << "" >>,
       << "Final summary (fallback): planned workflow steps were:" >> >>
    \o (IF plannedSteps(steps) = << >>
          THEN << << "(No steps available)" >> >>
          ELSE plannedSteps(steps))
    \o << << "" >>,
          << "verify credentials and network access, then retry" >> >>

\* the ExecutionResult built in the no-output catch block
fallbackStreaming(steps) ==
    [fullText |-> fallbackContent(steps), finishReason |-> "fallback_no_output"]

fallbackEvaluation ==
    [quality |-> "poor", score |-> 1, completeness |-> 0, correctness |-> 0,
     issues |-> << "The language model returned no output",
                   "Confirm API connectivity and credentials" >>,
     successes |-> << >>,
     recommendations |-> << "Verify the API key", "Confirm the environment can reach the API",
                            "Retry once the model responds" >>,
     shouldRetry |-> FALSE, shouldProceed |-> FALSE,
     retryStrategy |-> Some([approach |-> "Resolve connectivity issues",
                             focusAreas |-> << "API connectivity", "Credential validity",
                                               "Network access" >>,
                             modifications |-> << "Set a valid API key", "Allow network access",
                                                  "Re-run the workflow" >>])]

\* the evaluation built when evaluationStep throws
workflowEvaluationFallback ==
    [quality |-> "poor", score |-> 5, completeness |-> 5, correctness |-> 5,
     issues |-> << "Evaluation threw error" >>,
     successes |-> << >>,
     recommendations |-> << "Manual review recommended" >>,
     shouldRetry |-> FALSE, shouldProceed |-> TRUE, retryStrategy |-> None]

\* try { evaluationResult = await evaluationStep(..) } catch { fallback }
evaluateInWorkflow(gen) ==
    IF evaluationStep(gen).raised
      THEN workflowEvaluationFallback
      ELSE evaluationStep(gen).value[1]

\* the block without the evaluation's issues
retryBlock_NoIssues(count, evaluation) ==
    << "RETRY ATTEMPT", count, maxRetries, << >>,
       IF evaluation.retryStrategy = None
         THEN None ELSE Some(evaluation.retryStrategy[1].approach),
       IF evaluation.retryStrategy = None
         THEN None ELSE Some(evaluation.retryStrategy[1].focusAreas) >>

\* the block appended to the system prompt on a retry; retryStrategy?.x is
\* undefined when there is no strategy
retryBlock(count, evaluation) ==
    << "RETRY ATTEMPT", count, maxRetries, evaluation.issues,
       IF evaluation.retryStrategy = None
         THEN None ELSE Some(evaluation.retryStrategy[1].approach),
       IF evaluation.retryStrategy = None
         THEN None ELSE Some(evaluation.retryStrategy[1].focusAreas) >>

\* ------------------------------------------------------------------------
\* browserAutomationWorkflowEnhanced: one run
\* ------------------------------------------------------------------------

\* abortControllerRef.current = new AbortController()
newAbortController == [aborted |-> FALSE, inExecutionLoop |-> FALSE]

\* no execution attempt is running
AttemptIdle ==
    /\ hasApprovalHandler = FALSE
    /\ sdkHonoursNeedsApproval = FALSE
    /\ calls = << >>
    /\ messageToolExecutions = << >>
    /\ toolExecutions = << >>
    /\ approvalsRequested = << >>
    /\ approvalResolver = None
    /\ streamDone = FALSE

\* generateExecutionPlan has not been called
PlannerIdle ==
    /\ plannerPc = "idle"
    /\ modelText = None
    /\ planningResult = None

\* executeTool has not been called
ExecutorIdle == invocations = << >>

\* const agent = new ToolLoopAgent(agentConfig): no step has run
newSteps ==
    [length |-> 0, toolCalls |-> FALSE, succeeded |-> FALSE, failures |-> 0,
     lastTarget |-> "none", sameTarget |-> FALSE]

\* the agent loop has not been started
LoopIdle ==
    /\ agentSteps = newSteps
    /\ toolChoice = "unset"
    /\ agentStatus = "idle"

\* the fallback heuristics have not been called
HeuristicsIdle ==
    /\ userQuery = << >>
    /\ heuristics = << >>

\* a message of the conversation: its role, what it is, and the retry it asks for
newMessage(role, kind, n) == [role |-> role, kind |-> kind, n |-> n]

\* const newMessages = [...messages, userMessage]; pushMessage(userMessage)
newMessages == << newMessage("user", "query", 0) >>

\* pushMessage of the chat store: the store gets the message; arrays handed
\* out earlier are left as they are
pushMessage(store, msg) == Append(store, msg)

\* the store and the caller's array as handleComposerSubmit leaves them
ConversationIdle ==
    /\ conversation = newMessages
    /\ contextMessages = newMessages
    /\ attemptMessages = << >>

\* no executeBrowserAction call is followed
BrowserActionIdle ==
    browserAction = [pc |-> "idle", functionName |-> << >>, sensitiveText |-> FALSE,
                     press_enter |-> FALSE, pageContext |-> None, asked |-> FALSE,
                     userConfirmed |-> FALSE, result |-> "none"]

\* no approval request has been made: currentApproval is null
ModalIdle ==
    /\ approvalModal = [mounted |-> FALSE, open |-> FALSE, closeReasonRef |-> "null"]
    /\ modalLog = << >>

\* no agentic telemetry is followed
TelemetryIdle ==
    /\ userIntent = << >>
    /\ telemetry = << >>
    /\ telemetryRun = [attempts |-> 0, completed |-> 0, returned |-> FALSE,
                       toolExecutions |-> << >>]

WorkflowInit ==
    /\ pc = "start"
    /\ hasApiKey \in BOOLEAN
    /\ hasInitialContext \in BOOLEAN
    /\ inProgress = {}
    /\ phaseLog = << >>
    /\ tasks = createWorkflowTaskManager
    /\ plan = None
    /\ pageContextSource = "none"
    /\ pageContextStepCalled = FALSE
    /\ systemPrompt = << >>
    /\ retryCount = 0
    /\ attempts = 0
    /\ evaluationResult = None
    /\ evalGenFailed = FALSE
    /\ evalRaised = FALSE
    /\ lastGate = None
    /\ fallbackSummaryText = None
    /\ streaming = None
    /\ summarization = None
    /\ summarizerCalls = 0
    /\ summaryGenFailed = FALSE
    /\ streamError = None
    /\ output = None
    /\ raisedError = None
    /\ AttemptIdle
    /\ abortSignal = newAbortController
    /\ PlannerIdle
    /\ ExecutorIdle
    /\ LoopIdle
    /\ HeuristicsIdle
    /\ TelemetryIdle
    /\ ConversationIdle
    /\ BrowserActionIdle
    /\ ModalIdle

\* catch (error) { ...; endWorkflow(workflowId); throw error; }
Rethrow(error) ==
    /\ pc' = "failed"
    /\ inProgress' = {}
    /\ raisedError' = Some(error)

\* return { success: true, planning, streaming, summarization, evaluation, .. }
workflowOutput(stream, summary, evaluation) ==
    [success |-> TRUE, streaming |-> stream, summarization |-> summary,
     evaluation |-> evaluation]

\* top of the while loop: the next enhancedStreamingStep call is issued
EnterAttempt(running) ==
    /\ pc' = "streaming"
    /\ inProgress' = running \cup {"execute"}
    /\ phaseLog' = Append(phaseLog, "execute")
    /\ attempts' = attempts + 1
    /\ attemptMessages' = contextMessages
    /\ UNCHANGED << summarization, summarizerCalls, output, raisedError >>

\* mutant: the summarizer is called whatever the finish reason
SummarizationPhase_AlwaysCallsModel(running, stream, fallbackText, evaluation) ==
    /\ phaseLog' = Append(phaseLog, "summarize")
    /\ summarizerCalls' = summarizerCalls + 1
    /\ inProgress' = running \cup {"summarize"}
    /\ pc' = "summarizing"
    /\ UNCHANGED << attempts, summarization, output, raisedError >>

\* Phase 6: reuse the fallback text, or call summarizationStep
SummarizationPhase(running, stream, fallbackText, evaluation) ==
    /\ phaseLog' = Append(phaseLog, "summarize")
    /\ attempts' = attempts
    /\ raisedError' = raisedError
    /\ IF stream.finishReason = "fallback_no_output" /\ fallbackText # None
         THEN /\ summarization' = Some([summary |-> fallbackText[1], success |-> FALSE])
              /\ summarizerCalls' = summarizerCalls
              /\ output' = Some(workflowOutput(stream, summarization'[1], evaluation))
              /\ inProgress' = running
              /\ pc' = "done"
         ELSE /\ summarization' = summarization
              /\ summarizerCalls' = summarizerCalls + 1
              /\ output' = output
              /\ inProgress' = running \cup {"summarize"}
              /\ pc' = "summarizing"

\* Phase 1 is entered: the plan task starts and planningStep is called
StartPlanning ==
    /\ pc = "start"
    /\ tasks' = updateWorkflowTasks(tasks, "plan", "in_progress")
    /\ pc' = "planning"
    /\ inProgress' = inProgress \cup {"plan"}
    /\ phaseLog' = Append(phaseLog, "plan")
    /\ conversation' = pushMessage(conversation, newMessage("assistant", "planning", 0))
    /\ UNCHANGED << outsideWorkflow, pageContextStepCalled, attemptMessages, summaryGenFailed, hasApiKey, hasInitialContext, plan, pageContextSource, systemPrompt,
                    retryCount, attempts, evaluationResult, evalGenFailed, evalRaised,
                    lastGate, fallbackSummaryText, streaming, summarization,
                    summarizerCalls, streamError, output, raisedError >>

\* planningStep settles; the plan task completes and pageContextStep is called
PlanningReturns ==
    /\ pc = "planning"
    /\ \E p \in Plans : plan' = Some(p)
    /\ tasks' = updateWorkflowTasks(tasks, "plan", "completed")
    /\ pageContextStepCalled' = TRUE
    /\ pc' = "context"
    /\ inProgress' = Awaited(inProgress, "plan") \cup {"context"}
    /\ phaseLog' = Append(phaseLog, "context")
    /\ UNCHANGED << outsideWorkflow, conversation, attemptMessages, summaryGenFailed, hasApiKey, hasInitialContext, pageContextSource, systemPrompt,
                    retryCount, attempts, evaluationResult, evalGenFailed, evalRaised,
                    lastGate, fallbackSummaryText, streaming, summarization,
                    summarizerCalls, streamError, output, raisedError >>

\* useStep rejects (timeout or abort) while planning or gathering context
StepRejects ==
    /\ pc \in {"planning", "context"}
    /\ Rethrow([name |-> "Error", message |-> "step timed out or was aborted"])
    /\ UNCHANGED << outsideWorkflow, pageContextStepCalled, conversation, attemptMessages, summaryGenFailed, hasApiKey, hasInitialContext, phaseLog, tasks, plan,
                    pageContextSource, systemPrompt, retryCount, attempts,
                    evaluationResult, evalGenFailed, evalRaised, lastGate,
                    fallbackSummaryText, streaming, summarization, summarizerCalls,
                    streamError, output >>

\* pageContextStep settles, but input.settings.apiKey is missing
ContextReturnsApiKeyMissing ==
    /\ pc = "context"
    /\ ~hasApiKey
    /\ pageContextSource' = IF hasInitialContext THEN "provided" ELSE "gathered"
    /\ Rethrow([name |-> "Error", message |-> "API key is required"])
    /\ UNCHANGED << outsideWorkflow, pageContextStepCalled, conversation, attemptMessages, summaryGenFailed, hasApiKey, hasInitialContext, phaseLog, tasks, plan, systemPrompt,
                    retryCount, attempts, evaluationResult, evalGenFailed, evalRaised,
                    lastGate, fallbackSummaryText, streaming, summarization,
                    summarizerCalls, streamError, output >>

\* pageContextStep settles; model, tools and prompt are prepared and the
\* first enhancedStreamingStep call is issued
ContextReturns ==
    /\ pc = "context"
    /\ hasApiKey
    /\ pageContextSource' = IF hasInitialContext THEN "provided" ELSE "gathered"
    /\ systemPrompt' = << << "EXECUTION PLAN", plan[1] >> >>
    /\ retryCount <= maxRetries
    /\ EnterAttempt(Awaited(inProgress, "context"))
    /\ UNCHANGED << outsideWorkflow, pageContextStepCalled, conversation, summaryGenFailed, hasApiKey, hasInitialContext, tasks, plan, retryCount,
                    evaluationResult, evalGenFailed, evalRaised, lastGate,
                    fallbackSummaryText, streaming, streamError >>

\* enhancedStreamingStep returns; evaluationStep is called
StreamingReturns ==
    /\ pc = "streaming"
    /\ \E r \in StreamResults : streaming' = Some(r)
    /\ streamError' = None
    /\ pc' = "evaluating"
    /\ inProgress' = Awaited(inProgress, "execute") \cup {"evaluate"}
    /\ phaseLog' = Append(phaseLog, "evaluate")
    /\ UNCHANGED << outsideWorkflow, pageContextStepCalled, conversation, attemptMessages, summaryGenFailed, hasApiKey, hasInitialContext, tasks, plan, pageContextSource,
                    systemPrompt, retryCount, attempts, evaluationResult, evalGenFailed,
                    evalRaised, lastGate, fallbackSummaryText, summarization,
                    summarizerCalls, output, raisedError >>

\* enhancedStreamingStep rejects with an error that is not a no-output error
StreamingThrows ==
    /\ pc = "streaming"
    /\ \E e \in StreamErrors :
         /\ ~noOutputError(e)
         /\ streamError' = Some(e)
         /\ Rethrow(e)
    /\ UNCHANGED << outsideWorkflow, pageContextStepCalled, conversation, attemptMessages, summaryGenFailed, hasApiKey, hasInitialContext, phaseLog, tasks, plan,
                    pageContextSource, systemPrompt, retryCount, attempts,
                    evaluationResult, evalGenFailed, evalRaised, lastGate,
                    fallbackSummaryText, streaming, summarization, summarizerCalls,
                    output >>

\* mutant: the fallback evaluation does not leave the loop
StreamingNoOutput_NoBreak ==
    /\ pc = "streaming"
    /\ attempts <= maxRetries + 1
    /\ \E e \in StreamErrors :
         /\ noOutputError(e)
         /\ streamError' = Some(e)
    /\ fallbackSummaryText' = Some(fallbackContent(plan[1]))
    /\ streaming' = Some(fallbackStreaming(plan[1]))
    /\ evaluationResult' = Some(fallbackEvaluation)
    /\ EnterAttempt(Awaited(inProgress, "execute"))
    /\ conversation' = pushMessage(conversation, newMessage("assistant", "fallback", 0))
    /\ UNCHANGED << outsideWorkflow, pageContextStepCalled, summaryGenFailed, hasApiKey, hasInitialContext, tasks, plan, pageContextSource,
                    systemPrompt, retryCount, evalGenFailed, evalRaised, lastGate >>

\* enhancedStreamingStep rejects with a no-output error: fallback result and
\* evaluation, break, and the summarization phase
StreamingNoOutput ==
    /\ pc = "streaming"
    /\ \E e \in StreamErrors :
         /\ noOutputError(e)
         /\ streamError' = Some(e)
    /\ fallbackSummaryText' = Some(fallbackContent(plan[1]))
    /\ streaming' = Some(fallbackStreaming(plan[1]))
    /\ evaluationResult' = Some(fallbackEvaluation)
    /\ SummarizationPhase(Awaited(inProgress, "execute"), streaming'[1],
                          fallbackSummaryText', evaluationResult')
    /\ conversation' = pushMessage(conversation, newMessage("assistant", "fallback", 0))
    /\ UNCHANGED << outsideWorkflow, pageContextStepCalled, attemptMessages, summaryGenFailed, hasApiKey, hasInitialContext, tasks, plan, pageContextSource,
                    systemPrompt, retryCount, evalGenFailed, evalRaised, lastGate >>

\* mutant: the retry counter is not advanced
nextRetryCount_Stuck(count) == count

\* retryCount++
nextRetryCount(count) == count + 1

\* mutant: the else branch refuses to go on when the evaluation says not to
loopExitOutcome_Strict(evaluation) ==
    IF evaluation.shouldProceed THEN "break" ELSE "throw"

\* else branch of the retry decision: log, then break
loopExitOutcome(evaluation) == "break"

\* evaluationStep settles and the evaluation asks for a retry that is still
\* allowed: the prompt is extended and the loop continues
EvaluationRetry ==
    /\ pc = "evaluating"
    /\ \E gen \in EvalGenOutcomes :
         /\ shouldImmediatelyRetry(evaluateInWorkflow(gen)) /\ retryCount < maxRetries
         /\ evaluationResult' = Some(evaluateInWorkflow(gen))
         /\ evalGenFailed' = ~gen.ok
         /\ evalRaised' = evaluationStep(gen).raised
         /\ lastGate' = Some([evaluation |-> evaluateInWorkflow(gen),
                              verdict |-> shouldImmediatelyRetry(evaluateInWorkflow(gen))])
    /\ retryCount' = nextRetryCount(retryCount)
    /\ systemPrompt' = Append(systemPrompt, retryBlock(retryCount', evaluationResult'[1]))
    /\ IF retryCount' <= maxRetries
         THEN EnterAttempt(Awaited(inProgress, "evaluate"))
         ELSE /\ SummarizationPhase(Awaited(inProgress, "evaluate"), streaming[1],
                                    fallbackSummaryText, evaluationResult')
              /\ attemptMessages' = attemptMessages
    /\ conversation' =
         pushMessage(pushMessage(conversation, newMessage("assistant", "evaluation", 0)),
                     newMessage("user", "retry", retryCount'))
    /\ UNCHANGED << outsideWorkflow, pageContextStepCalled, summaryGenFailed, hasApiKey, hasInitialContext, tasks, plan, pageContextSource,
                    fallbackSummaryText, streaming, streamError >>

\* evaluationStep settles and no retry follows: the loop is left
EvaluationProceed ==
    /\ pc = "evaluating"
    /\ \E gen \in EvalGenOutcomes :
         /\ ~(shouldImmediatelyRetry(evaluateInWorkflow(gen)) /\ retryCount < maxRetries)
         /\ evaluationResult' = Some(evaluateInWorkflow(gen))
         /\ evalGenFailed' = ~gen.ok
         /\ evalRaised' = evaluationStep(gen).raised
         /\ lastGate' = Some([evaluation |-> evaluateInWorkflow(gen),
                              verdict |-> shouldImmediatelyRetry(evaluateInWorkflow(gen))])
    /\ IF loopExitOutcome(evaluationResult'[1]) = "break"
         THEN SummarizationPhase(Awaited(inProgress, "evaluate"), streaming[1],
                                 fallbackSummaryText, evaluationResult')
         ELSE /\ Rethrow([name |-> "Error", message |-> "evaluation failed"])
              /\ UNCHANGED << phaseLog, attempts, summarization, summarizerCalls, output >>
    /\ conversation' = pushMessage(conversation, newMessage("assistant", "evaluation", 0))
    /\ UNCHANGED << outsideWorkflow, pageContextStepCalled, attemptMessages, summaryGenFailed, hasApiKey, hasInitialContext, tasks, plan, pageContextSource,
                    systemPrompt, retryCount, fallbackSummaryText, streaming,
                    streamError >>

\* summarizationStep settles and the run returns its output
SummarizationSettles ==
    /\ pc = "summarizing"
    /\ \E gen \in SummaryGenOutcomes :
         /\ summaryGenFailed' = ~gen.ok
         /\ IF summarizationStep(gen).raised
           THEN /\ Rethrow([name |-> "Error", message |-> "summarization failed"])
                /\ UNCHANGED << summarization, output >>
           ELSE /\ summarization' = Some([summary |-> summarizationStep(gen).summary,
                                          success |-> summarizationStep(gen).success])
                /\ output' = Some(workflowOutput(streaming[1], summarization'[1],
                                                 evaluationResult))
                /\ inProgress' = Awaited(inProgress, "summarize")
                /\ pc' = "done"
                /\ raisedError' = raisedError
    /\ UNCHANGED << outsideWorkflow, pageContextStepCalled, conversation, attemptMessages, hasApiKey, hasInitialContext, phaseLog, tasks, plan,
                    pageContextSource, systemPrompt, retryCount, attempts,
                    evaluationResult, evalGenFailed, evalRaised, lastGate,
                    fallbackSummaryText, streaming, summarizerCalls, streamError >>

\* the user presses stop while the run is going on: the signal fires
stop ==
    /\ pc \notin {"done", "failed"}
    /\ ~abortSignal.aborted
    /\ abortSignal' = [aborted |-> TRUE, inExecutionLoop |-> (pc = "streaming")]
    /\ UNCHANGED << wvars, tvars, pvars, evars, lvars, hvars, mvars, cvars, bvars, ovars >>

WorkflowNext ==
    \/ stop
    \/ StartPlanning
    \/ PlanningReturns
    \/ StepRejects
    \/ ContextReturnsApiKeyMissing
    \/ ContextReturns
    \/ StreamingReturns
    \/ StreamingThrows
    \/ StreamingNoOutput
    \/ EvaluationRetry
    \/ EvaluationProceed
    \/ SummarizationSettles

Init == WorkflowInit

Next == WorkflowNext

Spec == Init /\ [][Next]_vars

\* awaited calls settle, so a run that can take a step eventually takes one
FairSpec == Spec /\ WF_vars(Next)

\* ------------------------------------------------------------------------
\* One execution attempt: tool calls, approval, stream consumption
\* (lib/streaming-enhanced.ts, createEnhancedBrowserToolSet, sidepanel.tsx)
\* ------------------------------------------------------------------------

\* tools of the set that carry an experimental_needsApproval hook
HookedTools == {"navigate", "type"}

ToolCallInputs ==
    { [toolName |-> "navigate", textLength |-> 0],
      [toolName |-> "click", textLength |-> 0] }
      \cup { [toolName |-> "type", textLength |-> n] :
               n \in {approvalTextLength, approvalTextLength + 1} }

\* a tool call the model has just emitted
newCall(input) ==
    [toolName |-> input.toolName, textLength |-> input.textLength,
     needsApproval |-> "unasked", executeInvoked |-> FALSE, result |-> "none",
     streamApproval |-> "unasked", consumed |-> "none"]

\* experimental_needsApproval: does the hook call onApprovalRequired
hookRequestsApproval(call, handler) ==
    CASE call.toolName = "navigate" -> handler
      [] call.toolName = "type" -> handler /\ call.textLength > approvalTextLength
      [] OTHER -> FALSE

\* the hook returns what onApprovalRequired resolved with, otherwise false
hookReturn(call) == call.needsApproval = "approved"

\* handleApprovalRequired: the modal is opened for this request and its
\* resolver replaces whatever resolver was stored
handleApprovalRequired(request) == Some(request)

\* an update that appends without looking for the toolCallId
upsertExecution_AppendOnly(executions, entry) == Append(executions, entry)

\* findIndex by toolCallId, then replace that entry or append
upsertExecution(executions, entry) ==
    IF \E k \in 1..Len(executions) : executions[k].toolCallId = entry.toolCallId
      THEN LET first == CHOOSE k \in 1..Len(executions) :
                          /\ executions[k].toolCallId = entry.toolCallId
                          /\ \A m \in 1..(k - 1) :
                               executions[m].toolCallId # entry.toolCallId
           IN [executions EXCEPT ![first] = entry]
      ELSE Append(executions, entry)

\* const toolSuccess = !result?.error && !result?.isError
toolSuccess(result) == result # "error"

\* the stream part the consumer handles next belongs to this call
NextToConsume(i) ==
    /\ i \in 1..Len(calls)
    /\ \A j \in 1..(i - 1) : calls[j].consumed = "result"

\* wvars while the first enhancedStreamingStep call is awaited
ExecutionPhase ==
    /\ pc = "streaming"
    /\ hasApiKey = TRUE
    /\ hasInitialContext = FALSE
    /\ inProgress = {"execute"}
    /\ phaseLog = << "plan", "context", "execute" >>
    /\ tasks = updateWorkflowTasks(createWorkflowTaskManager, "plan", "completed")
    /\ plan = Some(<< [action |-> "navigate", reasoning |-> "open the page"] >>)
    /\ pageContextSource = "gathered"
    /\ pageContextStepCalled = TRUE
    /\ systemPrompt = << << "EXECUTION PLAN", plan[1] >> >>
    /\ retryCount = 0
    /\ attempts = 1
    /\ evaluationResult = None
    /\ evalGenFailed = FALSE
    /\ evalRaised = FALSE
    /\ lastGate = None
    /\ fallbackSummaryText = None
    /\ streaming = None
    /\ summarization = None
    /\ summarizerCalls = 0
    /\ summaryGenFailed = FALSE
    /\ streamError = None
    /\ output = None
    /\ raisedError = None

ToolInit ==
    /\ ExecutionPhase
    /\ hasApprovalHandler \in BOOLEAN
    /\ sdkHonoursNeedsApproval \in BOOLEAN
    /\ calls = << >>
    /\ messageToolExecutions = << >>
    /\ toolExecutions = << >>
    /\ approvalsRequested = << >>
    /\ approvalResolver = None
    /\ streamDone = FALSE
    /\ abortSignal = newAbortController
    /\ PlannerIdle
    /\ ExecutorIdle
    /\ LoopIdle
    /\ HeuristicsIdle
    /\ TelemetryIdle
    /\ ConversationIdle
    /\ BrowserActionIdle
    /\ ModalIdle

\* the model emits a tool call; tool results feed back before the next step
EmitToolCall ==
    /\ ~streamDone
    /\ Len(calls) < MaxToolCalls
    /\ \A i \in 1..Len(calls) : calls[i].result # "none"
    /\ \E input \in ToolCallInputs : calls' = Append(calls, newCall(input))
    /\ UNCHANGED << outsideAttempt, hasApprovalHandler, sdkHonoursNeedsApproval,
                    messageToolExecutions, toolExecutions, approvalsRequested,
                    approvalResolver, streamDone >>

\* the SDK runs the tool's experimental_needsApproval hook, which asks the user
NeedsApprovalHookAsks ==
    /\ sdkHonoursNeedsApproval
    /\ \E i \in 1..Len(calls) :
         /\ calls[i].toolName \in HookedTools
         /\ calls[i].needsApproval = "unasked"
         /\ hookRequestsApproval(calls[i], hasApprovalHandler)
         /\ calls' = [calls EXCEPT ![i].needsApproval = "asking"]
         /\ approvalResolver' = handleApprovalRequired([call |-> i, layer |-> "tool"])
    /\ UNCHANGED << outsideAttempt, hasApprovalHandler, sdkHonoursNeedsApproval,
                    messageToolExecutions, toolExecutions, approvalsRequested,
                    streamDone >>

\* the hook returns false without asking (no callback, or a short text)
NeedsApprovalHookSkips ==
    /\ sdkHonoursNeedsApproval
    /\ \E i \in 1..Len(calls) :
         /\ calls[i].toolName \in HookedTools
         /\ calls[i].needsApproval = "unasked"
         /\ ~hookRequestsApproval(calls[i], hasApprovalHandler)
         /\ calls' = [calls EXCEPT ![i].needsApproval = "notRequested"]
    /\ UNCHANGED << outsideAttempt, hasApprovalHandler, sdkHonoursNeedsApproval,
                    messageToolExecutions, toolExecutions, approvalsRequested,
                    approvalResolver, streamDone >>

\* may the SDK run the tool: always when it knows no approval hook, otherwise
\* once the hook has returned false
sdkMayExecute(call, honoursHook) ==
    IF honoursHook /\ call.toolName \in HookedTools
      THEN call.needsApproval \in {"rejected", "notRequested"}
      ELSE TRUE

\* the SDK invokes the tool's execute, which returns the executor's outcome
ExecuteTool ==
    /\ \E i \in 1..Len(calls) :
         /\ ~calls[i].executeInvoked
         /\ sdkMayExecute(calls[i], sdkHonoursNeedsApproval)
         /\ \E outcome \in {"ok", "error"} :
              calls' = [calls EXCEPT ![i].executeInvoked = TRUE,
                                     ![i].result = outcome]
    /\ UNCHANGED << outsideAttempt, hasApprovalHandler, sdkHonoursNeedsApproval,
                    messageToolExecutions, toolExecutions, approvalsRequested,
                    approvalResolver, streamDone >>

\* case 'tool-call' with the approval flow enabled: onApprovalRequired is awaited
ConsumeToolCallAsksApproval ==
    /\ ~streamDone
    /\ hasApprovalHandler
    /\ \E i \in 1..Len(calls) :
         /\ NextToConsume(i)
         /\ calls[i].consumed = "none"
         /\ calls[i].streamApproval = "unasked"
         /\ calls' = [calls EXCEPT ![i].streamApproval = "asking"]
         /\ approvalResolver' = handleApprovalRequired([call |-> i, layer |-> "stream"])
    /\ UNCHANGED << outsideAttempt, hasApprovalHandler, sdkHonoursNeedsApproval,
                    messageToolExecutions, toolExecutions, approvalsRequested,
                    streamDone >>

\* case 'tool-call' without approval flow: the call is tracked as input-streaming
ConsumeToolCallUngated ==
    /\ ~streamDone
    /\ ~hasApprovalHandler
    /\ \E i \in 1..Len(calls) :
         /\ NextToConsume(i)
         /\ calls[i].consumed = "none"
         /\ calls' = [calls EXCEPT ![i].consumed = "call"]
         /\ messageToolExecutions' =
              upsertExecution(messageToolExecutions,
                              [toolCallId |-> i, state |-> "input-streaming"])
    /\ UNCHANGED << outsideAttempt, hasApprovalHandler, sdkHonoursNeedsApproval,
                    toolExecutions, approvalsRequested, approvalResolver, streamDone >>

\* the awaiting code resumes with the user's decision
ResumeWithDecision(request, approved) ==
    IF request.layer = "tool"
      THEN /\ calls' = [calls EXCEPT ![request.call].needsApproval =
                                       IF approved THEN "approved" ELSE "rejected"]
           /\ UNCHANGED << messageToolExecutions, approvalsRequested >>
      ELSE /\ calls' = [calls EXCEPT ![request.call].streamApproval =
                                       IF approved THEN "approved" ELSE "rejected",
                                     ![request.call].consumed = "call"]
           /\ IF approved
                THEN /\ approvalsRequested' =
                          Append(approvalsRequested,
                                 [toolName |-> calls[request.call].toolName,
                                  approved |-> FALSE])
                     /\ messageToolExecutions' =
                          Append(messageToolExecutions,
                                 [toolCallId |-> request.call,
                                  state |-> "approval-pending"])
                ELSE /\ approvalsRequested' = approvalsRequested
                     /\ messageToolExecutions' =
                          upsertExecution(messageToolExecutions,
                                          [toolCallId |-> request.call,
                                           state |-> "input-streaming"])

\* the user approves in the modal: the stored resolver resolves with true
handleApprove ==
    /\ approvalResolver # None
    /\ ResumeWithDecision(approvalResolver[1], TRUE)
    /\ approvalResolver' = None
    /\ UNCHANGED << outsideAttempt, hasApprovalHandler, sdkHonoursNeedsApproval,
                    toolExecutions, streamDone >>

\* the user rejects in the modal: the stored resolver resolves with false
handleReject ==
    /\ approvalResolver # None
    /\ ResumeWithDecision(approvalResolver[1], FALSE)
    /\ approvalResolver' = None
    /\ UNCHANGED << outsideAttempt, hasApprovalHandler, sdkHonoursNeedsApproval,
                    toolExecutions, streamDone >>

\* case 'tool-result': the result is recorded and the entry gets its final state
ConsumeToolResult ==
    /\ ~streamDone
    /\ \E i \in 1..Len(calls) :
         /\ NextToConsume(i)
         /\ calls[i].consumed = "call"
         /\ calls[i].result # "none"
         /\ calls' = [calls EXCEPT ![i].consumed = "result"]
         /\ toolExecutions' =
              Append(toolExecutions,
                     [tool |-> calls[i].toolName,
                      success |-> toolSuccess(calls[i].result)])
         /\ messageToolExecutions' =
              upsertExecution(messageToolExecutions,
                              [toolCallId |-> i,
                               state |-> IF toolSuccess(calls[i].result)
                                           THEN "output-available"
                                           ELSE "output-error"])
    /\ UNCHANGED << outsideAttempt, hasApprovalHandler, sdkHonoursNeedsApproval,
                    approvalsRequested, approvalResolver, streamDone >>

\* the stream ends: every part has been consumed and the SDK has stopped
FinishStream ==
    /\ ~streamDone
    /\ Len(calls) >= 1
    /\ \A i \in 1..Len(calls) :
         \/ calls[i].consumed = "result"
         \/ /\ calls[i].consumed = "call"
            /\ ~sdkMayExecute(calls[i], sdkHonoursNeedsApproval)
            /\ calls[i].needsApproval = "approved"
    /\ streamDone' = TRUE
    /\ UNCHANGED << outsideAttempt, hasApprovalHandler, sdkHonoursNeedsApproval, calls,
                    messageToolExecutions, toolExecutions, approvalsRequested,
                    approvalResolver >>

ToolNext ==
    \/ stop
    \/ EmitToolCall
    \/ NeedsApprovalHookAsks
    \/ NeedsApprovalHookSkips
    \/ ExecuteTool
    \/ ConsumeToolCallAsksApproval
    \/ ConsumeToolCallUngated
    \/ handleApprove
    \/ handleReject
    \/ ConsumeToolResult
    \/ FinishStream

ToolSpec == ToolInit /\ [][ToolNext]_vars

\* ------------------------------------------------------------------------
\* Planner (generateExecutionPlan)
\* ------------------------------------------------------------------------

\* instructionSchema.action: z.enum([...])
PlanActions ==
    {"navigate", "click", "type", "type_text", "press_key", "scroll", "wait",
     "getPageContext"}

\* const validActions = [...] inside experimental_repairText
validActions == {"navigate", "click", "type", "scroll", "wait", "getPageContext"}

\* const actionMap; actionMap[step.action] || 'wait'
actionMap(action) ==
    CASE action \in {"waitForElement", "waitFor"} -> "wait"
      [] action \in {"getContext", "getPage"} -> "getPageContext"
      [] action = "clickElement" -> "click"
      [] action = "typeText" -> "type"
      [] action = "scrollPage" -> "scroll"
      [] OTHER -> "wait"

\* steps as the model may write them: action "" stands for a missing action,
\* fallbackAction is absent, one level deep or nested, fieldsOk says whether
\* the other fields of the step satisfy instructionSchema
ModelSteps ==
    { [action |-> "navigate", fallbackAction |-> "none", fieldsOk |-> TRUE],
      [action |-> "type_text", fallbackAction |-> "flat", fieldsOk |-> TRUE],
      [action |-> "click", fallbackAction |-> "nested", fieldsOk |-> TRUE],
      [action |-> "waitForElement", fallbackAction |-> "none", fieldsOk |-> TRUE],
      [action |-> "hover", fallbackAction |-> "nested", fieldsOk |-> TRUE],
      [action |-> "", fallbackAction |-> "none", fieldsOk |-> TRUE],
      [action |-> "scroll", fallbackAction |-> "none", fieldsOk |-> FALSE] }

\* criticalPaths as the model may write it: None is a value that is no array
CriticalPathLists == { None, Some(<< 1 >>), Some(<< 2 >>), Some(<< 0 >>) }

\* JSON texts the model may answer with; steps = None is a missing steps
\* field, confidence is at the root, inside plan, or missing; arrays stands
\* for potentialIssues and optimizations
ModelJson ==
    { [kind |-> "json", hasPlan |-> TRUE, steps |-> st, confidence |-> c,
       objectiveOk |-> o, complexityScore |-> x, arrays |-> a,
       criticalPaths |-> cp] :
         cp \in CriticalPathLists,
         st \in {None} \cup { Some(q) : q \in UNION { [1..n -> ModelSteps] :
                                                        n \in 0..MaxModelSteps } },
         c \in {"root", "plan", "missing"},
         o \in BOOLEAN,
         x \in {"valid", "notNumber", "outOfRange"},
         a \in {"valid", "notArray"} }

\* an answer without a plan object, and an answer that is not JSON
ModelTexts ==
    ModelJson
      \cup { [kind |-> "json", hasPlan |-> FALSE, steps |-> None, confidence |-> c,
              objectiveOk |-> FALSE, complexityScore |-> "notNumber",
              arrays |-> "notArray", criticalPaths |-> None] :
                c \in {"root", "missing"} }
      \cup { [kind |-> "garbage"] }

\* mutant: the schema accepts any action name
instructionSchema_AnyAction(step) ==
    /\ step.fallbackAction # "nested"
    /\ step.fieldsOk

\* instructionSchema (strict)
instructionSchema(step) ==
    /\ step.action \in PlanActions
    /\ step.fallbackAction # "nested"
    /\ step.fieldsOk

\* evaluationSchema around planSchema (strict): does the text parse and conform
evaluationSchema(text) ==
    /\ text.kind = "json"
    /\ text.hasPlan
    /\ text.steps # None
    /\ Len(text.steps[1]) >= 1
    /\ \A k \in 1..Len(text.steps[1]) : instructionSchema(text.steps[1][k])
    /\ text.confidence = "root"
    /\ text.objectiveOk
    /\ text.complexityScore = "valid"
    /\ text.arrays = "valid"
    /\ text.criticalPaths # None
    /\ \A k \in 1..Len(text.criticalPaths[1]) : text.criticalPaths[1][k] >= 1

\* the default step injected for an empty or missing steps array
defaultStep ==
    [action |-> "getPageContext", fallbackAction |-> "none", fieldsOk |-> TRUE]

\* parsed.plan.steps.map(...): invalid actions are mapped, nested fallbacks cut
repairStep(step) ==
    [step EXCEPT !.action = IF step.action # "" /\ step.action \notin validActions
                              THEN actionMap(step.action) ELSE step.action,
                 !.fallbackAction = IF step.fallbackAction = "nested"
                                      THEN "flat" ELSE step.fallbackAction]

\* experimental_repairText
experimental_repairText(text) ==
    IF text.kind # "json"
      THEN text
      ELSE LET mapped ==
                 IF text.hasPlan /\ text.steps # None
                   THEN Some([k \in 1..Len(text.steps[1]) |-> repairStep(text.steps[1][k])])
                   ELSE None
               filled ==
                 IF mapped = None \/ mapped = Some(<< >>)
                   THEN Some(<< defaultStep >>)
                   ELSE mapped
           IN [kind |-> "json",
               hasPlan |-> TRUE,
               steps |-> filled,
               confidence |-> IF text.hasPlan /\ text.confidence \in {"plan", "missing"}
                                THEN "root" ELSE text.confidence,
               objectiveOk |-> text.objectiveOk,
               complexityScore |-> IF text.complexityScore = "notNumber"
                                     THEN "valid" ELSE text.complexityScore,
               arrays |-> "valid",
               criticalPaths |-> IF mapped = None \/ mapped = Some(<< >>)
                                     \/ text.criticalPaths = None
                                   THEN Some(<< 1 >>) ELSE text.criticalPaths]

\* what the generation call can do: fail, or deliver a text
GenerateOutcomes ==
    { [kind |-> "error", text |-> None] }
      \cup { [kind |-> "text", text |-> Some(t)] : t \in ModelTexts }

\* generateObject with schema and experimental_repairText: the text is
\* validated, a text that fails is repaired once and validated again, and a
\* failed call or a text that still fails raises
generateObject(outcome) ==
    IF outcome.kind = "error"
      THEN [ok |-> FALSE, object |-> None, repaired |-> FALSE]
      ELSE IF evaluationSchema(outcome.text[1])
        THEN [ok |-> TRUE, object |-> outcome.text, repaired |-> FALSE]
        ELSE IF evaluationSchema(experimental_repairText(outcome.text[1]))
          THEN [ok |-> TRUE, object |-> Some(experimental_repairText(outcome.text[1])),
                repaired |-> TRUE]
          ELSE [ok |-> FALSE, object |-> None, repaired |-> TRUE]

\* the plan returned from the catch block
fallbackPlan ==
    [steps |-> << defaultStep >>, criticalPaths |-> << 1 >>, origin |-> "fallback"]

\* mutant: the catch block hands the error on
planFromGeneration_Rethrows(generated) ==
    IF generated.ok /\ Len(generated.object[1].steps[1]) > 0
      THEN [raised |-> FALSE,
            result |-> Some([steps |-> generated.object[1].steps[1],
                             criticalPaths |-> generated.object[1].criticalPaths[1],
                             origin |-> IF generated.repaired THEN "repaired" ELSE "model"])]
      ELSE [raised |-> TRUE, result |-> None]

\* try { result = await generateObject(..); checks; return } catch { fallback }
planFromGeneration(generated) ==
    IF generated.ok /\ Len(generated.object[1].steps[1]) > 0
      THEN [raised |-> FALSE,
            result |-> Some([steps |-> generated.object[1].steps[1],
                             criticalPaths |-> generated.object[1].criticalPaths[1],
                             origin |-> IF generated.repaired THEN "repaired" ELSE "model"])]
      ELSE [raised |-> FALSE, result |-> Some(fallbackPlan)]

\* wvars while planningStep is awaited
PlanningPhase ==
    /\ pc = "planning"
    /\ hasApiKey \in BOOLEAN
    /\ hasInitialContext = FALSE
    /\ inProgress = {"plan"}
    /\ phaseLog = << "plan" >>
    /\ tasks = updateWorkflowTasks(createWorkflowTaskManager, "plan", "in_progress")
    /\ plan = None
    /\ pageContextSource = "none"
    /\ pageContextStepCalled = FALSE
    /\ systemPrompt = << >>
    /\ retryCount = 0
    /\ attempts = 0
    /\ evaluationResult = None
    /\ evalGenFailed = FALSE
    /\ evalRaised = FALSE
    /\ lastGate = None
    /\ fallbackSummaryText = None
    /\ streaming = None
    /\ summarization = None
    /\ summarizerCalls = 0
    /\ summaryGenFailed = FALSE
    /\ streamError = None
    /\ output = None
    /\ raisedError = None

PlannerInit ==
    /\ PlanningPhase
    /\ AttemptIdle
    /\ abortSignal = newAbortController
    /\ PlannerIdle
    /\ ExecutorIdle
    /\ LoopIdle
    /\ HeuristicsIdle
    /\ TelemetryIdle
    /\ ConversationIdle
    /\ BrowserActionIdle
    /\ ModalIdle

\* the model client is created; a missing API key is thrown on
CreatePlannerClient ==
    /\ plannerPc = "idle"
    /\ plannerPc' = IF hasApiKey THEN "generating" ELSE "raised"
    /\ UNCHANGED << outsidePlanner, modelText, planningResult >>

\* the generateObject call settles and generateExecutionPlan returns
GenerateObjectSettles ==
    /\ plannerPc = "generating"
    /\ \E outcome \in GenerateOutcomes :
         /\ modelText' = Some(outcome)
         /\ planningResult' = planFromGeneration(generateObject(outcome)).result
         /\ plannerPc' = IF planFromGeneration(generateObject(outcome)).raised
                           THEN "raised" ELSE "returned"
    /\ UNCHANGED outsidePlanner

PlannerNext ==
    \/ CreatePlannerClient
    \/ GenerateObjectSettles

PlannerSpec == PlannerInit /\ [][PlannerNext]_vars

\* ------------------------------------------------------------------------
\* Tool executor of the side panel (executeTool)
\* ------------------------------------------------------------------------

\* const MAX_RETRIES = 3
MAX_RETRIES == 3

\* tools a call is made for in the model
ExecutorTools == {"click", "pressKey"}

\* const TOOL_TIMEOUTS, as the text that goes into the timeout message
TOOL_TIMEOUTS(toolName) ==
    CASE toolName = "click" -> "8000ms"
      [] toolName = "pressKey" -> "3000ms"
      [] OTHER -> "8000ms"

\* error messages are sequences of words
connectionMessage ==
    << "Could", "not", "establish", "connection", "Receiving", "end", "does",
       "not", "exist" >>

elementMessage == << "Element", "not", "found" >>

restrictedMessage == << "Cannot", "access", "chrome://", "URL" >>

\* `Tool ${toolName} timed out after ${TOOL_TIMEOUT}ms`
timeoutMessage(toolName) ==
    << "Tool", toolName, "timed", "out", "after", TOOL_TIMEOUTS(toolName) >>

\* String.prototype.includes, on words
includes(message, pattern) ==
    \E k \in 0..(Len(message) - Len(pattern)) :
      \A j \in 1..Len(pattern) : message[k + j] = pattern[j]

lowerWord(word) ==
    CASE word = "Could" -> "could"
      [] word = "Receiving" -> "receiving"
      [] word = "Tool" -> "tool"
      [] word = "Element" -> "element"
      [] OTHER -> word

\* String.prototype.toLowerCase
toLowerCase(message) == [k \in DOMAIN message |-> lowerWord(message[k])]

\* what the sendMessage callback can see: a response with or without an
\* error field, or no response and chrome.runtime.lastError
Responses ==
    { [response |-> "object", error |-> None, lastError |-> None],
      [response |-> "object", error |-> Some(connectionMessage), lastError |-> None],
      [response |-> "object", error |-> Some(elementMessage), lastError |-> None],
      [response |-> "object", error |-> Some(restrictedMessage), lastError |-> None],
      [response |-> "undefined", error |-> None, lastError |-> Some(connectionMessage)] }

\* const errorMsg = response?.error || chrome.runtime.lastError?.message || ''
errorMsg(r) ==
    IF r.error # None THEN r.error[1]
    ELSE IF r.lastError # None THEN r.lastError[1]
    ELSE << >>

isConnectionError(r) ==
    \/ includes(errorMsg(r), << "Receiving", "end", "does", "not", "exist" >>)
    \/ includes(errorMsg(r), << "Could", "not", "establish", "connection" >>)

transientErrors ==
    { << "timeout" >>, << "network", "error" >>, << "connection", "lost" >>,
      << "receiving", "end", "does", "not", "exist" >> }

isTransientError(errorMessage) ==
    \E errorType \in transientErrors : includes(toLowerCase(errorMessage), errorType)

\* a fresh executeTool invocation: the timeout is armed and the message sent;
\* parent is the invocation awaiting this one (0: the caller, or nobody)
newInvocation(toolName, retry, parent) ==
    [toolName |-> toolName, retryCount |-> retry, parent |-> parent,
     toolPromise |-> "sent", race |-> "pending", catchRetry |-> "none",
     outcome |-> "pending", result |-> "none", error |-> << >>]

\* Promise.race settles for invocation i and the code after the await runs:
\* return the result, or in the catch block return the cached context, schedule
\* a retry and return nothing, or throw; whoever awaits i is resumed in turn
RECURSIVE settleRace(_, _, _, _, _)
settleRace(invs, i, ok, result, error) ==
    IF invs[i].race # "pending"
      THEN invs
      ELSE LET returns(value, retry) ==
                 [invs EXCEPT ![i].race = IF ok THEN "resolved" ELSE "rejected",
                              ![i].outcome = "returned",
                              ![i].result = value,
                              ![i].catchRetry = IF retry THEN "scheduled" ELSE "none"]
               throws ==
                 [invs EXCEPT ![i].race = "rejected",
                              ![i].outcome = "threw",
                              ![i].error = error]
               resume(after, settledOk, value) ==
                 IF invs[i].parent = 0
                   THEN after
                   ELSE settleRace(
                          [after EXCEPT ![invs[i].parent].toolPromise =
                                          IF settledOk THEN "resolved" ELSE "rejected"],
                          invs[i].parent, settledOk, value, error)
           IN IF ok
                THEN resume(returns(result, FALSE), TRUE, result)
                ELSE IF includes(error, << "chrome://" >>)
                  THEN resume(returns("cachedContext", FALSE), TRUE, "cachedContext")
                  ELSE IF isTransientError(error) /\ invs[i].retryCount < MAX_RETRIES
                    THEN resume(returns("undefined", TRUE), TRUE, "undefined")
                    ELSE resume(throws, FALSE, "none")

ExecutorInit ==
    /\ ExecutionPhase
    /\ AttemptIdle
    /\ abortSignal = newAbortController
    /\ PlannerIdle
    /\ ExecutorIdle
    /\ LoopIdle
    /\ HeuristicsIdle
    /\ TelemetryIdle
    /\ ConversationIdle
    /\ BrowserActionIdle
    /\ ModalIdle

\* a tool of the tool set calls executeTool(toolName, parameters)
CallExecuteTool ==
    /\ invocations = << >>
    /\ \E toolName \in ExecutorTools :
         invocations' = << newInvocation(toolName, 0, 0) >>
    /\ UNCHANGED outsideExecutor

\* the sendMessage callback runs with the response
ResponseArrives ==
    /\ \E i \in 1..Len(invocations), r \in Responses :
         /\ invocations[i].toolPromise = "sent"
         /\ invocations' =
              IF isConnectionError(r) /\ invocations[i].retryCount < MAX_RETRIES
                THEN [invocations EXCEPT ![i].toolPromise = "retryScheduled"]
                ELSE IF r.error # None
                  THEN settleRace([invocations EXCEPT ![i].toolPromise = "rejected"],
                                  i, FALSE, "none", r.error[1])
                  ELSE settleRace([invocations EXCEPT ![i].toolPromise = "resolved"],
                                  i, TRUE, r.response, << >>)
    /\ UNCHANGED outsideExecutor

\* RETRY_DELAY after a connection error: the callback calls executeTool again
\* and awaits it
RetryDelayElapses ==
    /\ \E i \in 1..Len(invocations) :
         /\ invocations[i].toolPromise = "retryScheduled"
         /\ invocations' =
              Append([invocations EXCEPT ![i].toolPromise = "awaitingRetry"],
                     newInvocation(invocations[i].toolName,
                                   invocations[i].retryCount + 1, i))
    /\ UNCHANGED outsideExecutor

\* RETRY_DELAY after the catch block scheduled a retry: executeTool is called
\* again from the timer, with nobody awaiting it
CatchRetryDelayElapses ==
    /\ \E i \in 1..Len(invocations) :
         /\ invocations[i].catchRetry = "scheduled"
         /\ invocations' =
              Append([invocations EXCEPT ![i].catchRetry = "started"],
                     newInvocation(invocations[i].toolName,
                                   invocations[i].retryCount + 1, 0))
    /\ UNCHANGED outsideExecutor

\* TOOL_TIMEOUT elapses before the race has settled
TimeoutFires ==
    /\ \E i \in 1..Len(invocations) :
         /\ invocations[i].race = "pending"
         /\ invocations' =
              settleRace(invocations, i, FALSE, "none",
                         timeoutMessage(invocations[i].toolName))
    /\ UNCHANGED outsideExecutor

ExecutorNext ==
    \/ CallExecuteTool
    \/ ResponseArrives
    \/ RetryDelayElapses
    \/ CatchRetryDelayElapses
    \/ TimeoutFires

ExecutorSpec == ExecutorInit /\ [][ExecutorNext]_vars

\* ------------------------------------------------------------------------
\* Properties of the tool executor
\* ------------------------------------------------------------------------

\* executeTool invocations that are retries of the caller's call
Retries == { i \in 1..Len(invocations) : invocations[i].retryCount > 0 }

\* the caller's executeTool call has thrown this kind of failure
Surfaced(pattern) ==
    /\ Len(invocations) >= 1
    /\ invocations[1].outcome = "threw"
    /\ includes(toLowerCase(invocations[1].error), pattern)

\* every retry the retry budget allows has been made and answered
RetriesUsedUp ==
    \E i \in Retries :
      /\ invocations[i].retryCount = MAX_RETRIES
      /\ invocations[i].toolPromise # "sent"

\* C16: for one tool call executeTool makes at most MAX_RETRIES retries, and a
\* connection failure reaches the caller only after the retries are used up.
C16_ConnectionRetriesBounded ==
    /\ Cardinality(Retries) <= MAX_RETRIES
    /\ Surfaced(<< "receiving", "end", "does", "not", "exist" >>) => RetriesUsedUp

\* C17: a timeout of the tool invocation is not surfaced to the caller at
\* once: when the caller's call fails with the timeout error, MAX_RETRIES
\* retries have been made before.
C17_TimeoutRetried ==
    Surfaced(<< "timed", "out" >>) => RetriesUsedUp

\* ------------------------------------------------------------------------
\* Properties of the planner
\* ------------------------------------------------------------------------

\* C14: every plan the planner returns, taken from the model, repaired or the
\* fallback plan, has at least one step, only actions of the closed 8-action
\* enum, and no fallbackAction nested inside a fallbackAction.
C14_PlanValid ==
    planningResult # None =>
      /\ Len(planningResult[1].steps) >= 1
      /\ \A k \in 1..Len(planningResult[1].steps) :
           /\ planningResult[1].steps[k].action \in PlanActions
           /\ planningResult[1].steps[k].fallbackAction # "nested"

\* a repaired plan is returned for an answer that had an action outside the
\* enum and a nested fallbackAction
C14_Witness ==
    /\ planningResult # None
    /\ planningResult[1].origin = "repaired"
    /\ modelText # None
    /\ modelText[1].kind = "text"
    /\ modelText[1].text[1].kind = "json"
    /\ modelText[1].text[1].steps # None
    /\ \E k \in 1..Len(modelText[1].text[1].steps[1]) :
         /\ modelText[1].text[1].steps[1][k].action \notin PlanActions
         /\ modelText[1].text[1].steps[1][k].fallbackAction = "nested"

\* the plan is one the executor can follow: it has steps
UsablePlan(result) ==
    /\ result # None
    /\ Len(result[1].steps) >= 1

\* C15 (as stated): the planner never raises to its caller, and every failure
\* of the planning model call ends in the single-step fallback plan.
C15_PlannerNeverRaises ==
    /\ plannerPc # "raised"
    /\ plannerPc = "returned" => UsablePlan(planningResult)
    /\ (modelText # None /\ ~generateObject(modelText[1]).ok) =>
         planningResult = Some(fallbackPlan)

\* C15 (amended): when the API key is present the planner never raises, and
\* every failure of the planning model call (failed call, unparseable text,
\* text that violates the schema after repair) ends in the single-step
\* fallback plan; without an API key the planner raises before the model call.
C15_PlannerAbsorbsGenerationFailures ==
    /\ hasApiKey => plannerPc # "raised"
    /\ (~hasApiKey /\ plannerPc # "idle") => (plannerPc = "raised" /\ modelText = None)
    /\ plannerPc = "returned" => UsablePlan(planningResult)
    /\ (modelText # None /\ ~generateObject(modelText[1]).ok) =>
         planningResult = Some(fallbackPlan)

\* the generation call failed altogether and the fallback plan came back
C15_Witness ==
    /\ plannerPc = "returned"
    /\ modelText # None
    /\ modelText[1].kind = "error"
    /\ planningResult = Some(fallbackPlan)

\* ------------------------------------------------------------------------
\* Properties of an execution attempt
\* ------------------------------------------------------------------------

\* the user rejected an approval request made for this call
ApprovalRejected(i) ==
    \/ calls[i].needsApproval = "rejected"
    \/ calls[i].streamApproval = "rejected"

\* state of the call's ToolExecution entry, if it has one
ToolExecutionStates(i) ==
    { messageToolExecutions[k].state :
        k \in { m \in 1..Len(messageToolExecutions) :
                  messageToolExecutions[m].toolCallId = i } }

\* C2: a tool call whose approval request was rejected never has its execute
\* invoked, and once the stream has ended its ToolExecution is in the failed
\* terminal state, not approval-pending and not successful.
C2_RejectedNeverExecutes ==
    \A i \in 1..Len(calls) :
      ApprovalRejected(i) =>
        /\ ~calls[i].executeInvoked
        /\ streamDone => ToolExecutionStates(i) = {"output-error"}

\* ------------------------------------------------------------------------
\* Properties of the workflow run
\* ------------------------------------------------------------------------

\* C13: at every point of a workflow run at most one task of the Task Ledger
\* is in status in_progress.
C13_OneTaskInProgress ==
    Cardinality({ t \in DOMAIN tasks : tasks[t] = "in_progress" }) <= 1

\* the plan task is in progress while planningStep is awaited
C13_Witness ==
    /\ pc = "planning"
    /\ tasks["plan"] = "in_progress"
    /\ \A t \in DOMAIN tasks \ {"plan"} : tasks[t] = "pending"

\* C18: a tool call whose approval request was rejected completes with the
\* synthetic result {success:false, error:"cancelled by user"}: no other
\* result is ever delivered for it.
C18_RejectionYieldsCancelledResult ==
    \A i \in 1..Len(calls) :
      ApprovalRejected(i) => calls[i].result \in {"none", "cancelled"}

\* C12: once the cancellation signal has fired, the Execution Loop starts no
\* further model step (no new tool call is emitted) and executes no further
\* tool call.
C12_CancelStopsLoop ==
    [][abortSignal.aborted =>
         /\ Len(calls') = Len(calls)
         /\ \A i \in 1..Len(calls) :
              calls'[i].executeInvoked = calls[i].executeInvoked]_vars

\* C11: once the cancellation signal has fired while the run was in its
\* Execution Loop, the run is never again waiting for the Evaluator or the
\* Summarizer: it exits without invoking either.
C11_CancelSkipsEvaluation ==
    (abortSignal.aborted /\ abortSignal.inExecutionLoop) =>
      pc \notin {"evaluating", "summarizing"}

\* C1: a run invokes the Execution Loop at most maxRetries + 1 times, even
\* when every evaluation asks for an immediate retry.
C1_RetryBound == attempts <= maxRetries + 1

\* the last of three attempts was evaluated, its evaluation asked for yet
\* another retry, and the run went on to return instead
C1_Witness ==
    /\ pc = "done"
    /\ attempts = maxRetries + 1
    /\ lastGate # None
    /\ lastGate[1].verdict

\* C3: the retry gate returns true exactly when shouldRetry holds, quality is
\* poor, there is at least one issue and a retry strategy is present; it is
\* false when quality is not poor, the strategy is absent or there are no issues.
C3_RetryGate ==
    lastGate # None =>
      /\ lastGate[1].verdict <=>
           ( /\ lastGate[1].evaluation.shouldRetry = TRUE
             /\ lastGate[1].evaluation.quality = "poor"
             /\ Len(lastGate[1].evaluation.issues) > 0
             /\ lastGate[1].evaluation.retryStrategy # None )
      /\ ( \/ lastGate[1].evaluation.quality # "poor"
           \/ lastGate[1].evaluation.retryStrategy = None
           \/ lastGate[1].evaluation.issues = << >> )
           => ~lastGate[1].verdict

\* shouldRetry is true, quality is poor, there are issues, but no strategy
C3_Witness ==
    /\ lastGate # None
    /\ ~lastGate[1].verdict
    /\ lastGate[1].evaluation.shouldRetry
    /\ lastGate[1].evaluation.quality = "poor"
    /\ lastGate[1].evaluation.issues # << >>
    /\ lastGate[1].evaluation.retryStrategy = None

C5_NoOutputFallback ==
    (streamError # None /\ noOutputError(streamError[1])) =>
      /\ pc # "failed"
      /\ raisedError = None
      /\ streaming # None
      /\ streaming[1].finishReason = "fallback_no_output"
      /\ Len(streaming[1].fullText) = Len(plan[1]) + 5
      /\ \A i \in 1..Len(plan[1]) :
           streaming[1].fullText[3 + i] =
             << "step", i, plan[1][i].action, plan[1][i].reasoning >>

\* the no-output error is recognised by its message alone, on a two-step plan
C5_Witness ==
    /\ streamError # None
    /\ streamError[1].name = "Error"
    /\ noOutputError(streamError[1])
    /\ Len(plan[1]) = MaxPlanSteps
    /\ streaming # None
    /\ streaming[1].finishReason = "fallback_no_output"

\* C6: no Execution Loop attempt is started by or after a no-output failure.
C6_NoOutputEndsLoop ==
    [][(streamError' # None /\ noOutputError(streamError'[1]))
         => attempts' = attempts]_vars

\* the no-output failure happened on a retry attempt
C6_Witness ==
    /\ streamError # None
    /\ noOutputError(streamError[1])
    /\ retryCount = 1
    /\ attempts = 2
    /\ pc = "done"

\* C7: on the fallback path the summarizer is never called and the summary is
\* the fallback text of the Execution Loop.
C7_FallbackSummaryReused ==
    (streaming # None /\ streaming[1].finishReason = "fallback_no_output") =>
      /\ summarizerCalls = 0
      /\ pc = "done"
      /\ summarization # None
      /\ summarization[1].summary = streaming[1].fullText

C7_Witness ==
    /\ pc = "done"
    /\ streaming[1].finishReason = "fallback_no_output"
    /\ summarizerCalls = 0
    /\ output[1].summarization.summary = fallbackContent(plan[1])

C9_SummarizerFailureAbsorbed ==
    summaryGenFailed =>
      /\ pc = "done"
      /\ raisedError = None
      /\ summarization # None
      /\ ~summarization[1].success
      /\ output # None
      /\ output[1].success

C9_Witness ==
    /\ summaryGenFailed
    /\ pc = "done"
    /\ ~output[1].summarization.success
    /\ output[1].success

\* the order in which phases may be entered
PhaseOrder(log) ==
    /\ Len(log) >= 1 => log[1] = "plan"
    /\ Len(log) >= 2 => log[2] = "context"
    /\ Len(log) >= 3 => log[3] = "execute"
    /\ \A i \in 1..Len(log) :
         /\ log[i] = "plan" => i = 1
         /\ log[i] = "context" => i = 2
         /\ log[i] = "summarize" => i = Len(log)
         /\ (i > 3 /\ log[i] = "execute") => log[i - 1] = "evaluate"
         /\ log[i] = "evaluate" => log[i - 1] = "execute"

\* C10: phases are entered in the order plan, context, execute, evaluate
\* (execute and evaluate repeating), summarize, and a phase is entered only
\* when no other phase of the run is still in progress.
C10_PhasesSequential ==
    /\ Cardinality(inProgress) <= 1
    /\ PhaseOrder(phaseLog)
    /\ \A ph \in inProgress :
         /\ phaseLog # << >>
         /\ ph = phaseLog[Len(phaseLog)]

\* a run with three attempts has returned
C10_Witness ==
    /\ pc = "done"
    /\ inProgress = {}
    /\ Len(phaseLog) = 3 + 2 * (maxRetries + 1)

\* ------------------------------------------------------------------------
\* Agent loop of enhancedStreamingStep (lib/streaming-enhanced.ts)
\* ------------------------------------------------------------------------

\* stepCountIs(100)
stepBudget == 100

\* if (steps.length < 3) return false
minStepsForStopConditions == 3

\* what enhancements.prepareStep can return for toolChoice
EnhancedConfigs ==
    { [toolChoice |-> c] : c \in {"undefined", "required", "auto"} }

\* what one model step can deliver: text only, one tool call with its result
\* (target is the URL of a navigation, "none" for any other tool), or an error
StepOutputs ==
    { [kind |-> "text", target |-> "none", ok |-> TRUE],
      [kind |-> "error", target |-> "none", ok |-> FALSE] }
      \cup { [kind |-> "tool-call", target |-> t, ok |-> o] :
               t \in {"none", "a", "b"}, o \in BOOLEAN }

\* steps.push(step): the finished step joins the steps the callbacks read
appendStep(s, out) ==
    [length |-> s.length + 1,
     toolCalls |-> s.toolCalls \/ out.kind = "tool-call",
     succeeded |-> s.succeeded \/ (out.kind = "tool-call" /\ out.ok),
     failures |-> IF out.kind = "tool-call" /\ ~out.ok THEN s.failures + 1 ELSE 0,
     lastTarget |-> out.target,
     sameTarget |-> out.target # "none" /\ out.target = s.lastTarget]

\* steps.some(step => (step.toolCalls?.length || 0) > 0)
hasExecutedTool(s) == s.toolCalls

\* the merge without the forced first tool call
prepareStep_Unforced(s, enhancedConfig) ==
    IF enhancedConfig.toolChoice = "undefined"
      THEN [enhancedConfig EXCEPT !.toolChoice = "auto"]
      ELSE enhancedConfig

\* agentConfig.prepareStep: the configuration the next step runs with
prepareStep(s, enhancedConfig) ==
    IF ~hasExecutedTool(s)
      THEN [enhancedConfig EXCEPT !.toolChoice = "required"]
      ELSE IF enhancedConfig.toolChoice = "undefined"
        THEN [enhancedConfig EXCEPT !.toolChoice = "auto"]
        ELSE enhancedConfig

\* stepCountIs(stepCount): steps.length === stepCount
stepCountIs(stepCount, s) == s.length = stepCount

\* stopOnExcessiveErrors: three consecutive tool-call failures
stopOnExcessiveErrors(s) == s.failures >= 3

\* stopOnNavigationLoop: the same navigation target again in the next step
stopOnNavigationLoop(s) == s.sameTarget

\* agentConfig.stopWhen: the step budget, and the enhancements' conditions
\* once three steps have run
stopWhen(s) ==
    \/ stepCountIs(stepBudget, s)
    \/ /\ ~(s.length < minStepsForStopConditions)
       /\ (stopOnExcessiveErrors(s) \/ stopOnNavigationLoop(s))

LoopInit ==
    /\ ExecutionPhase
    /\ AttemptIdle
    /\ abortSignal = newAbortController
    /\ PlannerIdle
    /\ ExecutorIdle
    /\ LoopIdle
    /\ HeuristicsIdle
    /\ TelemetryIdle
    /\ ConversationIdle
    /\ BrowserActionIdle
    /\ ModalIdle

\* agent.stream({ messages: aiMessages })
StartAgent ==
    /\ agentStatus = "idle"
    /\ agentStatus' = "running"
    /\ UNCHANGED << outsideLoop, agentSteps, toolChoice >>

\* one step of the agent: prepareStep, the model call with its tool call, then
\* the stop conditions
RunStep ==
    /\ agentStatus = "running"
    /\ \E enhancedConfig \in EnhancedConfigs, out \in StepOutputs :
         LET mergedConfig == prepareStep(agentSteps, enhancedConfig)
             after == IF out.kind = "error" THEN agentSteps ELSE appendStep(agentSteps, out)
         IN /\ mergedConfig.toolChoice = "required" => out.kind # "text"
            /\ toolChoice' = mergedConfig.toolChoice
            /\ agentSteps' = after
            /\ agentStatus' = IF out.kind = "error" THEN "failed"
                              ELSE IF out.kind = "text" THEN "finished"
                              ELSE IF stopWhen(after) THEN "stopped"
                              ELSE "running"
    /\ UNCHANGED outsideLoop

LoopNext ==
    \/ stop
    \/ StartAgent
    \/ RunStep

LoopSpec == LoopInit /\ [][LoopNext]_vars

\* ------------------------------------------------------------------------
\* Properties of the agent loop
\* ------------------------------------------------------------------------

\* the agent runs a step in this transition
StepRuns ==
    /\ agentStatus = "running"
    /\ (agentSteps' # agentSteps \/ agentStatus' # "running")

\* C19: every step that runs before any tool call was made runs with tool
\* choice 'required', and a step runs with 'auto' only when an earlier step
\* of the attempt made a tool call, whether that call succeeded or failed.
C19_AutoOnlyAfterToolCall ==
    [][StepRuns =>
         /\ (~hasExecutedTool(agentSteps) => toolChoice' = "required")
         /\ (toolChoice' = "auto" => hasExecutedTool(agentSteps))]_vars

\* a step ran with 'auto' although no tool call of the attempt has succeeded
C19_Witness ==
    /\ toolChoice = "auto"
    /\ agentSteps.length >= 2
    /\ agentSteps.toolCalls
    /\ ~agentSteps.succeeded

\* C19 as stated: tool choice is 'required' before the first tool call and
\* relaxes to 'auto' only after a tool call has completed successfully.
C19_AutoOnlyAfterSuccess ==
    [][StepRuns =>
         /\ (~hasExecutedTool(agentSteps) => toolChoice' = "required")
         /\ (toolChoice' = "auto" => agentSteps.succeeded)]_vars

\* a stop condition of the Execution Loop holds: step budget, excessive
\* errors, navigation loop, or cancellation
StopConditionHolds ==
    \/ stopWhen(agentSteps)
    \/ abortSignal.aborted

\* C20: an attempt runs no step once a stop condition holds (step budget,
\* three consecutive failures, navigation loop, cancellation), and never more
\* than stepBudget steps.
C20_StopsAtFirstStopCondition ==
    [][StepRuns => (~StopConditionHolds /\ agentSteps'.length <= stepBudget)]_vars

\* ------------------------------------------------------------------------
\* Fallback heuristics of the planner (calculateComplexityScore,
\* calculateConfidence).  A string is the sequence of its characters; scores
\* are in thousandths.
\* ------------------------------------------------------------------------

\* words a query is made of in the model
MaxQueryWords == 3

\* the words and phrases queries are built from
QueryWords ==
    { << "s", "e", "a", "r", "c", "h", " ", "a", "n", "d" >>,
      << "l", "o", "g", "i", "n" >>,
      << "P", "a", "g", "e" >>,
      << "w", "a", "i", "t" >>,
      << "h", "t", "t", "p", ":", "/", "/", "a", "?", "q" >>,
      << "h", "t", "t", "p", "s", ":", "/", "/", "b" >>,
      << "g", "o", " ", "t", "o" >>,
      << "m", "a", "y", "b", "e" >> }

RECURSIVE joinWords(_)
\* the words of a query joined by single spaces
joinWords(words) ==
    IF Len(words) = 0 THEN << >>
    ELSE IF Len(words) = 1 THEN words[1]
    ELSE words[1] \o << " " >> \o joinWords(Tail(words))

\* the queries the heuristics are run on
UserQueries ==
    { joinWords(w) : w \in UNION { [1..n -> QueryWords] : n \in 0..MaxQueryWords } }

lowerChar(c) ==
    CASE c = "P" -> "p"
      [] OTHER -> c

\* userQuery.toLowerCase()
queryToLowerCase(text) == [k \in DOMAIN text |-> lowerChar(text[k])]

\* indicators.some(indicator => query.includes(indicator))
someIncluded(query, indicators) ==
    \E indicator \in indicators : includes(query, indicator)

\* ['then', 'and', 'after', 'next', 'finally']
multiStepIndicators ==
    { << "t", "h", "e", "n" >>,
      << "a", "n", "d" >>,
      << "a", "f", "t", "e", "r" >>,
      << "n", "e", "x", "t" >>,
      << "f", "i", "n", "a", "l", "l", "y" >> }

\* ['fill', 'form', 'input', 'submit', 'register', 'sign up', 'login']
formIndicators ==
    { << "f", "i", "l", "l" >>,
      << "f", "o", "r", "m" >>,
      << "i", "n", "p", "u", "t" >>,
      << "s", "u", "b", "m", "i", "t" >>,
      << "r", "e", "g", "i", "s", "t", "e", "r" >>,
      << "s", "i", "g", "n", " ", "u", "p" >>,
      << "l", "o", "g", "i", "n" >> }

\* ['navigate', 'browse', 'click', 'menu', 'tab', 'page']
navIndicators ==
    { << "n", "a", "v", "i", "g", "a", "t", "e" >>,
      << "b", "r", "o", "w", "s", "e" >>,
      << "c", "l", "i", "c", "k" >>,
      << "m", "e", "n", "u" >>,
      << "t", "a", "b" >>,
      << "p", "a", "g", "e" >> }

\* ['search', 'find', 'filter', 'sort', 'query']
searchIndicators ==
    { << "s", "e", "a", "r", "c", "h" >>,
      << "f", "i", "n", "d" >>,
      << "f", "i", "l", "t", "e", "r" >>,
      << "s", "o", "r", "t" >>,
      << "q", "u", "e", "r", "y" >> }

\* ['load', 'wait', 'ajax', 'js', 'javascript', 'dynamic']
dynamicIndicators ==
    { << "l", "o", "a", "d" >>,
      << "w", "a", "i", "t" >>,
      << "a", "j", "a", "x" >>,
      << "j", "s" >>,
      << "j", "a", "v", "a", "s", "c", "r", "i", "p", "t" >>,
      << "d", "y", "n", "a", "m", "i", "c" >> }

\* ['navigate to', 'go to', 'open', 'visit', 'browse to']
clearIndicators ==
    { << "n", "a", "v", "i", "g", "a", "t", "e", " ", "t", "o" >>,
      << "g", "o", " ", "t", "o" >>,
      << "o", "p", "e", "n" >>,
      << "v", "i", "s", "i", "t" >>,
      << "b", "r", "o", "w", "s", "e", " ", "t", "o" >> }

\* ['maybe', 'perhaps', 'try', 'might', 'could', 'somehow']
vagueIndicators ==
    { << "m", "a", "y", "b", "e" >>,
      << "p", "e", "r", "h", "a", "p", "s" >>,
      << "t", "r", "y" >>,
      << "m", "i", "g", "h", "t" >>,
      << "c", "o", "u", "l", "d" >>,
      << "s", "o", "m", "e", "h", "o", "w" >> }

\* does text continue with pattern from position i on
startsWithAt(text, i, pattern) ==
    /\ i + Len(pattern) - 1 <= Len(text)
    /\ \A j \in 1..Len(pattern) : text[i + j - 1] = pattern[j]

\* length of the scheme https?:\/\/ matched at position i, 0 if none
schemeAt(text, i) ==
    IF startsWithAt(text, i, << "h", "t", "t", "p", "s", ":", "/", "/" >>) THEN 8
    ELSE IF startsWithAt(text, i, << "h", "t", "t", "p", ":", "/", "/" >>) THEN 7
    ELSE 0

\* does /https?:\/\/[^\s]+/ match at position i
urlAt(text, i) ==
    /\ schemeAt(text, i) > 0
    /\ i + schemeAt(text, i) <= Len(text)
    /\ text[i + schemeAt(text, i)] # " "

RECURSIVE urlEnd(_, _)
\* last position of the run of non-space characters that holds position i
urlEnd(text, i) ==
    IF i < Len(text) /\ text[i + 1] # " " THEN urlEnd(text, i + 1) ELSE i

RECURSIVE urlMatchFrom(_, _)
\* userQuery.match(/https?:\/\/[^\s]+/g), scanning from position i
urlMatchFrom(text, i) ==
    IF i > Len(text) THEN << >>
    ELSE IF urlAt(text, i)
      THEN << SubSeq(text, i, urlEnd(text, i)) >> \o urlMatchFrom(text, urlEnd(text, i) + 1)
      ELSE urlMatchFrom(text, i + 1)

\* Math.min
min(a, b) == IF a < b THEN a ELSE b

\* Math.max
max(a, b) == IF a > b THEN a ELSE b

\* the sum of the complexity factors, before the final Math.min
complexityFactors(query, steps) ==
    LET lowered == queryToLowerCase(query)
        urlMatch == urlMatchFrom(query, 1)
    IN 200
       + (IF someIncluded(lowered, multiStepIndicators) \/ (steps # None /\ Len(steps[1]) > 2)
            THEN 300 ELSE 0)
       + (IF someIncluded(lowered, formIndicators) THEN 250 ELSE 0)
       + (IF someIncluded(lowered, navIndicators) THEN 150 ELSE 0)
       + (IF someIncluded(lowered, searchIndicators) THEN 200 ELSE 0)
       + (IF someIncluded(lowered, dynamicIndicators) THEN 150 ELSE 0)
       + (IF Len(urlMatch) > 1 THEN 100 ELSE 0)
       + (IF Len(urlMatch) > 0 /\ includes(urlMatch[1], << "?" >>) THEN 100 ELSE 0)

\* the score without the final Math.min
calculateComplexityScore_Unclamped(query, steps) == complexityFactors(query, steps)

\* calculateComplexityScore(userQuery, steps?)
calculateComplexityScore(query, steps) == min(complexityFactors(query, steps), 1000)

\* calculateConfidence(userQuery, complexityScore, hasValidSteps?)
calculateConfidence(query, complexityScore, hasValidSteps) ==
    LET lowered == queryToLowerCase(query)
        base == 900 - (complexityScore * 3) \div 10
        clear == IF someIncluded(lowered, clearIndicators) THEN 50 ELSE 0
        vague == IF someIncluded(lowered, vagueIndicators) THEN 200 ELSE 0
        noDestination ==
            IF ~includes(query, << "h", "t", "t", "p", ":", "/", "/" >>) /\ ~includes(query, << "h", "t", "t", "p", "s", ":", "/", "/" >>)
               /\ ~includes(lowered, << "n", "a", "v", "i", "g", "a", "t", "e" >>)
              THEN 100 ELSE 0
        valid == IF hasValidSteps THEN 100 ELSE 0
    IN max(min(base + clear - vague - noDestination + valid, 1000), 100)

\* complexityScore and confidence as the fallback plan carries them
fallbackValues(query) ==
    [complexityScore |-> calculateComplexityScore(query, None),
     confidence |-> calculateConfidence(query,
                        calculateComplexityScore(query, None), FALSE)]

HeuristicsInit ==
    /\ PlanningPhase
    /\ AttemptIdle
    /\ abortSignal = newAbortController
    /\ PlannerIdle
    /\ ExecutorIdle
    /\ LoopIdle
    /\ TelemetryIdle
    /\ ConversationIdle
    /\ BrowserActionIdle
    /\ ModalIdle
    /\ hasApiKey
    /\ userQuery \in UserQueries
    /\ heuristics = << >>

\* the planner falls back for userQuery
FallbackForQuery ==
    /\ heuristics = << >>
    /\ heuristics' = << fallbackValues(userQuery) >>
    /\ UNCHANGED << outsideHeuristics, userQuery >>

\* the planner falls back again for the same query
FallbackForQueryAgain ==
    /\ Len(heuristics) = 1
    /\ heuristics' = Append(heuristics, fallbackValues(userQuery))
    /\ UNCHANGED << outsideHeuristics, userQuery >>

HeuristicsNext ==
    \/ FallbackForQuery
    \/ FallbackForQueryAgain

HeuristicsSpec == HeuristicsInit /\ [][HeuristicsNext]_vars

\* ------------------------------------------------------------------------
\* Properties of the fallback heuristics
\* ------------------------------------------------------------------------

GateDecides ==
    /\ pc = "evaluating"
    /\ pc' \in {"streaming", "summarizing", "done"}

\* the decision starts another Execution Loop attempt
RetryStarts == attempts' = attempts + 1

UserIntents ==
    { << "g", "o", " ", "t", "o", " ", "g", "o", "o", "g", "l", "e", ".", "c", "o", "m" >>,
      << "v", "i", "s", "i", "t", " ", "a", ".", "c", "o", "m" >>,
      << "c", "l", "i", "c", "k", " ", "o", "k" >> }

\* getExpectedToolForIntent(intent)
getExpectedToolForIntent(intent) ==
    LET lowerIntent == queryToLowerCase(intent)
        has(word) == includes(lowerIntent, word)
    IN IF has(<< "g", "o", " ", "t", "o" >>) \/ has(<< "n", "a", "v", "i", "g", "a", "t", "e" >>) \/ has(<< "v", "i", "s", "i", "t" >>) THEN "navigate"
       ELSE IF has(<< "c", "l", "i", "c", "k" >>) \/ has(<< "p", "r", "e", "s", "s" >>) THEN "click"
       ELSE IF has(<< "t", "y", "p", "e" >>) \/ has(<< "e", "n", "t", "e", "r" >>) \/ has(<< "i", "n", "p", "u", "t" >>) THEN "type"
       ELSE IF has(<< "s", "c", "r", "o", "l", "l" >>) \/ has(<< "d", "o", "w", "n" >>) \/ has(<< "u", "p" >>) THEN "scroll"
       ELSE IF has(<< "w", "a", "i", "t" >>) \/ has(<< "p", "a", "u", "s", "e" >>) THEN "wait"
       ELSE "unknown"

\* toolExecutions.push({ tool, success, duration }): the entries
\* enhancedStreamingStep collects from the tool-result parts
newToolExecution(resultToolName, succeeded) ==
    [tool |-> resultToolName, success |-> succeeded]

\* tools whose results an attempt can collect
TelemetryTools == {"navigate", "getPageContext"}

\* streaming.toolExecutions of a completed attempt: the first step is forced
\* to call a tool, so there is at least one entry
StreamedToolExecutions ==
    UNION { [1..n -> { newToolExecution(t, ok) : t \in TelemetryTools, ok \in BOOLEAN }] :
              n \in 1..MaxToolCalls }

\* object[name]: undefined when the object has no such property
property(object, name) ==
    IF name \in DOMAIN object THEN Some(object[name]) ELSE None

\* streaming?.toolExecutions?.map((exec) => exec.toolName) || []
actualTools(executions) ==
    [k \in DOMAIN executions |-> property(executions[k], "toolName")]

\* actualTools[0] || 'none'
firstTool(executions) ==
    IF Len(executions) > 0 /\ actualTools(executions)[1] # None
      THEN actualTools(executions)[1][1]
      ELSE "none"

agenticEvent(event, field, value) ==
    [event |-> event, field |-> field, value |-> value]

\* the events logged after enhancedStreamingStep has returned
emitAgenticTelemetry(intent, executions) ==
    LET expectedTool == getExpectedToolForIntent(intent)
        isCorrectTool == firstTool(executions) = expectedTool /\ expectedTool # "unknown"
        checkedPageFirst == firstTool(executions) = "getPageContext"
    IN << agenticEvent("agentic_tool_selection", "match", isCorrectTool),
          agenticEvent("agentic_awareness", "checked_page_first", checkedPageFirst) >>

TelemetryInit ==
    /\ ExecutionPhase
    /\ AttemptIdle
    /\ abortSignal = newAbortController
    /\ PlannerIdle
    /\ ExecutorIdle
    /\ LoopIdle
    /\ HeuristicsIdle
    /\ ConversationIdle
    /\ BrowserActionIdle
    /\ ModalIdle
    /\ userIntent \in UserIntents
    /\ telemetry = << >>
    /\ telemetryRun = [attempts |-> 0, completed |-> 0, returned |-> FALSE,
                       toolExecutions |-> << >>]

\* enhancedStreamingStep returns and the attempt's telemetry is logged
StreamingCompletes ==
    /\ ~telemetryRun.returned
    /\ telemetryRun.attempts <= maxRetries
    /\ \E executions \in StreamedToolExecutions :
         /\ telemetry' = telemetry \o emitAgenticTelemetry(userIntent, executions)
         /\ telemetryRun' = [telemetryRun EXCEPT !.attempts = @ + 1,
                                                 !.completed = @ + 1,
                                                 !.toolExecutions = executions]
    /\ UNCHANGED << outsideTelemetry, userIntent >>

\* enhancedStreamingStep rejects: only the failure event is logged
StreamingFails ==
    /\ ~telemetryRun.returned
    /\ telemetryRun.attempts <= maxRetries
    /\ telemetry' = Append(telemetry,
                           agenticEvent("agentic_streaming_failure", "is_no_output_error", TRUE))
    /\ telemetryRun' = [telemetryRun EXCEPT !.attempts = @ + 1, !.returned = TRUE]
    /\ UNCHANGED << outsideTelemetry, userIntent >>

\* the retry loop is left and the run returns
RunReturns ==
    /\ ~telemetryRun.returned
    /\ telemetryRun.attempts >= 1
    /\ telemetryRun' = [telemetryRun EXCEPT !.returned = TRUE]
    /\ UNCHANGED << outsideTelemetry, userIntent, telemetry >>

TelemetryNext ==
    \/ StreamingCompletes
    \/ StreamingFails
    \/ RunReturns

TelemetrySpec == TelemetryInit /\ [][TelemetryNext]_vars

\* ------------------------------------------------------------------------
\* Properties of the agentic telemetry
\* ------------------------------------------------------------------------

\* an event of this kind with this flag set has been logged
Logged(event, field) ==
    \E k \in 1..Len(telemetry) :
      /\ telemetry[k].event = event
      /\ telemetry[k].field = field
      /\ telemetry[k].value

Sensitive(i) == hookRequestsApproval(calls[i], TRUE)

\* the user has answered an approval request made for this call
DecisionReceived(i) ==
    \/ calls[i].needsApproval \in {"approved", "rejected"}
    \/ calls[i].streamApproval \in {"approved", "rejected"}

RetryRunning ==
    /\ pc = "streaming"
    /\ retryCount >= 1

\* the system prompt holds a 'RETRY ATTEMPT n/maxRetries' block with these
\* issues, this approach and these focus areas
PromptHasRetryBlock(n, issues, approach, focusAreas) ==
    \E k \in 1..Len(systemPrompt) :
      /\ Len(systemPrompt[k]) = 6
      /\ systemPrompt[k][1] = "RETRY ATTEMPT"
      /\ systemPrompt[k][2] = n
      /\ systemPrompt[k][3] = maxRetries
      /\ systemPrompt[k][4] = issues
      /\ systemPrompt[k][5] = Some(approach)
      /\ systemPrompt[k][6] = Some(focusAreas)

\* C26: while retry number n runs, 1 <= n <= maxRetries, the system prompt of
\* its attempt contains 'RETRY ATTEMPT n/maxRetries' together with every
\* issue of the evaluation that asked for the retry, and that evaluation's
\* retryStrategy approach and focus areas.
C26_RetryPromptBlock ==
    RetryRunning =>
      /\ retryCount <= maxRetries
      /\ evaluationResult # None
      /\ shouldImmediatelyRetry(evaluationResult[1])
      /\ PromptHasRetryBlock(retryCount, evaluationResult[1].issues,
                             evaluationResult[1].retryStrategy[1].approach,
                             evaluationResult[1].retryStrategy[1].focusAreas)

\* the first of two allowed retries runs with 'RETRY ATTEMPT 1/2', the issue
\* 'z', the approach 'retry' and the focus area 'x' in its prompt
C26_Witness ==
    /\ RetryRunning
    /\ retryCount = 1
    /\ Len(systemPrompt) = 2
    /\ systemPrompt[2] = << "RETRY ATTEMPT", 1, 2, << "z" >>, Some("retry"), Some(<< "x" >>) >>

\* the synthetic user turn that asks for retry n
retryTurn(n) == newMessage("user", "retry", n)

\* the messages hold this turn
HasTurn(messages, turn) == \E k \in 1..Len(messages) : messages[k] = turn

Submitted(i) ==
    \/ calls[i].needsApproval \in {"asking", "approved", "rejected"}
    \/ calls[i].streamApproval \in {"asking", "approved", "rejected"}

\* C28: an approval request is made for a tool call only if the call is
\* flagged sensitive, and, with an approval capability present, every
\* sensitive call whose tool-call event has been handled has been submitted.
C28_GateOnlyForSensitive ==
    \A i \in 1..Len(calls) :
      /\ Submitted(i) => Sensitive(i)
      /\ (hasApprovalHandler /\ Sensitive(i) /\ calls[i].consumed # "none")
           => Submitted(i)

\* ------------------------------------------------------------------------
\* Properties of the ToolExecution lifecycle
\* ------------------------------------------------------------------------

\* the state union of a ToolExecution, in lifecycle order
lifecycleRank(state) ==
    CASE state = "approval-pending" -> 1
      [] state = "input-streaming" -> 2
      [] state \in {"output-available", "output-error"} -> 3

TerminalStates == {"output-available", "output-error"}

\* positions of the message's toolExecutions that carry this toolCallId
ExecutionEntries(i) ==
    { k \in 1..Len(messageToolExecutions) :
        messageToolExecutions[k].toolCallId = i }

\* one update of the message keeps every toolCallId's entry, never moves it to
\* an earlier state and never changes it once it is terminal
LifecycleAdvances(i) ==
    /\ Cardinality(ExecutionEntries(i)') <= 1
    /\ ToolExecutionStates(i) # {} => ToolExecutionStates(i)' # {}
    /\ \A before \in ToolExecutionStates(i) :
         \A after \in ToolExecutionStates(i)' :
           /\ lifecycleRank(before) <= lifecycleRank(after)
           /\ before \in TerminalStates => after = before

\* the entry has just reached output-available or output-error
BecomesTerminal(i) ==
    /\ ToolExecutionStates(i) \cap TerminalStates = {}
    /\ ToolExecutionStates(i)' \cap TerminalStates # {}

C30_LedgerFollowsPhases ==
    /\ \A t \in TaskIds \cap inProgress : tasks[t] = "in_progress"
    /\ (pc = "done" /\ output # None) =>
         \A t \in TaskIds : tasks[t] \notin {"pending", "in_progress"}

\* ------------------------------------------------------------------------
\* Properties of the planner's repair
\* ------------------------------------------------------------------------

\* the planner returned a plan that experimental_repairText produced from the
\* steps the model wrote
RepairedFromSteps ==
    /\ plannerPc = "returned"
    /\ planningResult # None
    /\ planningResult[1].origin = "repaired"
    /\ modelText # None
    /\ modelText[1].kind = "text"
    /\ modelText[1].text[1].kind = "json"
    /\ modelText[1].text[1].steps # None
    /\ Len(modelText[1].text[1].steps[1]) = Len(planningResult[1].steps)

\* C31: repair changes a step's action only when it is outside the closed
\* 8-action enum: a known synonym becomes its enum counterpart
\* (waitForElement becomes wait), any other unknown action becomes wait, and
\* an action of the enum (type_text and press_key included) stays as written.
C31_RepairKeepsEnumActions ==
    RepairedFromSteps =>
      \A k \in 1..Len(planningResult[1].steps) :
        LET written == modelText[1].text[1].steps[1][k].action
            repaired == planningResult[1].steps[k].action
        IN /\ written \in PlanActions => repaired = written
           /\ written = "waitForElement" => repaired = "wait"
           /\ (written \notin PlanActions /\ written # "") => repaired \in PlanActions

\* C32: in every plan the planner returns (written by the model, repaired
\* or fallback), every index in criticalPaths refers to an existing step of
\* that plan.
C32_CriticalPathsInRange ==
    (plannerPc = "returned" /\ planningResult # None) =>
      \A k \in 1..Len(planningResult[1].criticalPaths) :
        planningResult[1].criticalPaths[k] \in 1..Len(planningResult[1].steps)

\* ------------------------------------------------------------------------
\* Properties of approved tool calls
\* ------------------------------------------------------------------------

\* C33: when the attempt has ended, every call the user approved has been
\* executed and its ToolExecution is output-available or output-error, not
\* approval-pending, and every approvalsRequested entry carries the user's
\* decision approved = true.
C33_ApprovedCallsComplete ==
    streamDone =>
      /\ \A i \in 1..Len(calls) :
           calls[i].streamApproval = "approved" =>
             /\ calls[i].executeInvoked
             /\ ToolExecutionStates(i) # {}
             /\ ToolExecutionStates(i) \subseteq TerminalStates
      /\ \A k \in 1..Len(approvalsRequested) : approvalsRequested[k].approved

\* ------------------------------------------------------------------------
\* Properties of the tool executor's retries
\* ------------------------------------------------------------------------

\* the caller's executeTool call has settled: it returned or it threw
Reported ==
    /\ Len(invocations) >= 1
    /\ invocations[1].outcome # "pending"

\* an automatic retry is waiting for its delay or has its message in flight
RetryOutstanding ==
    \E i \in 1..Len(invocations) :
      \/ invocations[i].toolPromise = "retryScheduled"
      \/ invocations[i].catchRetry = "scheduled"
      \/ i \in Retries /\ invocations[i].toolPromise = "sent"

\* C34: the caller's executeTool call settles with the outcome of the tool:
\* it never returns while a retry scheduled by the catch block has yet to
\* deliver, so it never resolves with undefined in place of the retried
\* call's result or error.
C34_CallerGetsToolOutcome ==
    (Reported /\ invocations[1].outcome = "returned") =>
      \A i \in 1..Len(invocations) : invocations[i].catchRetry = "none"

\* C35: once the caller's executeTool call has settled, no further
\* EXECUTE_TOOL message is sent for that call and no automatic retry of it is
\* waiting or in flight.
C35_NoRetryAfterOutcome ==
    [][Reported => (~RetryOutstanding /\ Len(invocations') = Len(invocations))]_vars

\* ------------------------------------------------------------------------
\* Properties of the approval requests
\* ------------------------------------------------------------------------

apiKeyError == [name |-> "Error", message |-> "API key is required"]

C40_SuppliedContextSkipsToolCall ==
    /\ (hasInitialContext /\ pageContextSource # "none") => pageContextSource = "provided"
    /\ pageContextStepCalled => ~hasInitialContext

\* ------------------------------------------------------------------------
\* Browser actions of the computer-use loop (sidepanel.tsx: executeBrowserAction)
\* ------------------------------------------------------------------------

\* function names are sequences of characters
click_name == << "c", "l", "i", "c", "k" >>

navigate_name == << "n", "a", "v", "i", "g", "a", "t", "e" >>

type_name == << "t", "y", "p", "e" >>

type_text_at == << "t", "y", "p", "e", "_", "t", "e", "x", "t", "_", "a", "t" >>

key_combination ==
    << "k", "e", "y", "_", "c", "o", "m", "b", "i", "n", "a", "t", "i", "o", "n" >>

\* the calls followed: a function name, whether args.text holds a password or
\* a card number, and args.press_enter
BrowserActionInputs ==
    [functionName : {click_name, navigate_name, type_name, type_text_at, key_combination},
     sensitiveText : BOOLEAN,
     press_enter : BOOLEAN]

\* what executeTool('getPageContext') gives: it throws, or a page whose url or
\* text names a sensitive page, or whose text names sensitive fields
PageContexts ==
    { [ok |-> FALSE, sensitivePage |-> FALSE, sensitiveFields |-> FALSE] }
      \cup [ok : {TRUE}, sensitivePage : BOOLEAN, sensitiveFields : BOOLEAN]

\* const alwaysConfirm = ['key_combination']
alwaysConfirm == {key_combination}

\* is the user asked: alwaysConfirm || isSensitivePage || isSensitiveInput ||
\* isFormSubmission
confirmationNeeded(call, page) ==
    LET isSensitivePage == page.ok /\ page.sensitivePage
        isSensitiveInput ==
          /\ includes(call.functionName, type_name)
          /\ (call.sensitiveText \/ (page.ok /\ page.sensitiveFields))
        isFormSubmission == call.functionName = type_text_at /\ call.press_enter
    IN \/ call.functionName \in alwaysConfirm
       \/ isSensitivePage
       \/ isSensitiveInput
       \/ isFormSubmission

\* executeBrowserAction after requiresUserConfirmation has returned
browserActionResult(functionName, userConfirmed) ==
    IF /\ ~userConfirmed
       /\ \/ functionName \in {key_combination}
          \/ includes(functionName, type_name)
          \/ functionName = type_text_at
      THEN "userCancelled"
      ELSE "executed"

BrowserActionInit ==
    /\ ExecutionPhase
    /\ AttemptIdle
    /\ abortSignal = newAbortController
    /\ PlannerIdle
    /\ ExecutorIdle
    /\ LoopIdle
    /\ HeuristicsIdle
    /\ TelemetryIdle
    /\ ConversationIdle
    /\ BrowserActionIdle
    /\ ModalIdle

\* executeBrowserAction(functionName, args) is called and asks
\* requiresUserConfirmation, which fetches the page context
CallExecuteBrowserAction ==
    /\ browserAction.pc = "idle"
    /\ \E call \in BrowserActionInputs :
         browserAction' = [browserAction EXCEPT !.pc = "confirming",
                                                !.functionName = call.functionName,
                                                !.sensitiveText = call.sensitiveText,
                                                !.press_enter = call.press_enter]
    /\ UNCHANGED << wvars, tvars, abortSignal, pvars, evars, lvars, hvars, mvars,
                    cvars, ovars >>

\* the page context arrives: window.confirm is shown, or
\* requiresUserConfirmation returns false and the action is dispatched
PageContextSettles ==
    /\ browserAction.pc = "confirming"
    /\ \E page \in PageContexts :
         browserAction' =
           IF confirmationNeeded(browserAction, page)
             THEN [browserAction EXCEPT !.pc = "asking", !.pageContext = Some(page),
                                        !.asked = TRUE]
             ELSE [browserAction EXCEPT
                     !.pc = "done",
                     !.pageContext = Some(page),
                     !.userConfirmed = FALSE,
                     !.result = browserActionResult(browserAction.functionName, FALSE)]
    /\ UNCHANGED << wvars, tvars, abortSignal, pvars, evars, lvars, hvars, mvars,
                    cvars, ovars >>

\* the user answers window.confirm and the action is dispatched or cancelled
ConfirmAnswered ==
    /\ browserAction.pc = "asking"
    /\ \E answer \in BOOLEAN :
         browserAction' =
           [browserAction EXCEPT
              !.pc = "done",
              !.userConfirmed = answer,
              !.result = browserActionResult(browserAction.functionName, answer)]
    /\ UNCHANGED << wvars, tvars, abortSignal, pvars, evars, lvars, hvars, mvars,
                    cvars, ovars >>

BrowserActionNext ==
    \/ CallExecuteBrowserAction
    \/ PageContextSettles
    \/ ConfirmAnswered

BrowserActionSpec == BrowserActionInit /\ [][BrowserActionNext]_vars

\* C38: executeBrowserAction reports an action as cancelled by the user only
\* if the user was asked to confirm it and declined; a type or key action for
\* which no confirmation is asked is executed.
C38_CancelledOnlyWhenDeclined ==
    browserAction.pc = "done" =>
      /\ browserAction.result = "userCancelled" =>
           (browserAction.asked /\ ~browserAction.userConfirmed)
      /\ ~browserAction.asked => browserAction.result = "executed"

\* ------------------------------------------------------------------------
\* Approval modal (components/ui/approval-modal.tsx as rendered by sidepanel.tsx)
\* ------------------------------------------------------------------------

\* tools an approval is requested for
ModalTools == {"navigate", "click", "type"}

\* setCurrentApproval({toolName, riskLevel, ..}); no callback has been invoked
newOpening(toolName) ==
    [toolName |-> toolName,
     riskLevel |-> IF toolName = "navigate" THEN "medium" ELSE "low",
     onApprove |-> 0, onReject |-> 0, closedBy |-> "open", closeReports |-> 0]

\* the modal rendered with open = true and a fresh closeReasonRef
openedModal == [mounted |-> TRUE, open |-> TRUE, closeReasonRef |-> "null"]

\* the side panel's handlers set currentApproval to null: the modal unmounts
unmountedModal == [mounted |-> FALSE, open |-> FALSE, closeReasonRef |-> "null"]

\* mutant: a close always counts as a rejection
onRejectCalls_Always(closeReason) == 1

\* handleDialogOpenChange(false): if (closeReasonRef.current === null) onReject()
onRejectCalls(closeReason) == IF closeReason = "null" THEN 1 ELSE 0

\* the opening the modal currently shows
current == Len(modalLog)

ModalInit ==
    /\ ExecutionPhase
    /\ AttemptIdle
    /\ abortSignal = newAbortController
    /\ PlannerIdle
    /\ ExecutorIdle
    /\ LoopIdle
    /\ HeuristicsIdle
    /\ TelemetryIdle
    /\ ConversationIdle
    /\ BrowserActionIdle
    /\ ModalIdle

\* handleApprovalRequired: the request is stored and the modal opened
OpenApprovalModal ==
    /\ ~approvalModal.mounted
    /\ Len(modalLog) < MaxOpenings
    /\ \E toolName \in ModalTools : modalLog' = Append(modalLog, newOpening(toolName))
    /\ approvalModal' = openedModal
    /\ UNCHANGED << wvars, tvars, abortSignal, pvars, evars, lvars, hvars, mvars,
                    cvars, bvars >>

\* the Approve button: the reason is noted, onApprove runs and the modal closes
ModalApprove ==
    /\ approvalModal.mounted
    /\ approvalModal.open
    /\ approvalModal' = [approvalModal EXCEPT !.closeReasonRef = "approve",
                                              !.open = FALSE]
    /\ modalLog' = [modalLog EXCEPT ![current].onApprove = @ + 1,
                                    ![current].closedBy = "approve"]
    /\ UNCHANGED << wvars, tvars, abortSignal, pvars, evars, lvars, hvars, mvars,
                    cvars, bvars >>

\* the Reject button: the reason is noted, onReject runs and the modal closes
ModalReject ==
    /\ approvalModal.mounted
    /\ approvalModal.open
    /\ approvalModal' = [approvalModal EXCEPT !.closeReasonRef = "reject",
                                              !.open = FALSE]
    /\ modalLog' = [modalLog EXCEPT ![current].onReject = @ + 1,
                                    ![current].closedBy = "reject"]
    /\ UNCHANGED << wvars, tvars, abortSignal, pvars, evars, lvars, hvars, mvars,
                    cvars, bvars >>

\* the user dismisses the dialog (Escape, overlay): handleDialogOpenChange(false)
DismissDialog ==
    /\ approvalModal.mounted
    /\ approvalModal.open
    /\ approvalModal' = [approvalModal EXCEPT !.closeReasonRef = "null",
                                              !.open = FALSE]
    /\ modalLog' = [modalLog EXCEPT
                      ![current].onReject = @ + onRejectCalls(approvalModal.closeReasonRef),
                      ![current].closedBy = "dismiss",
                      ![current].closeReports = @ + 1]
    /\ UNCHANGED << wvars, tvars, abortSignal, pvars, evars, lvars, hvars, mvars,
                    cvars, bvars >>

\* the Dialog reports the close that followed a button through its
\* onOpenChange: handleDialogOpenChange(false) runs with the reason still noted
DialogReportsClose ==
    /\ approvalModal.mounted
    /\ ~approvalModal.open
    /\ modalLog[current].closeReports = 0
    /\ approvalModal' = [approvalModal EXCEPT !.closeReasonRef = "null"]
    /\ modalLog' = [modalLog EXCEPT
                      ![current].onReject = @ + onRejectCalls(approvalModal.closeReasonRef),
                      ![current].closeReports = @ + 1]
    /\ UNCHANGED << wvars, tvars, abortSignal, pvars, evars, lvars, hvars, mvars,
                    cvars, bvars >>

\* the side panel re-renders with currentApproval = null
UnmountModal ==
    /\ approvalModal.mounted
    /\ ~approvalModal.open
    /\ approvalModal' = unmountedModal
    /\ UNCHANGED << wvars, tvars, abortSignal, pvars, evars, lvars, hvars, mvars,
                    cvars, bvars, modalLog >>

ModalNext ==
    \/ OpenApprovalModal
    \/ ModalApprove
    \/ ModalReject
    \/ DismissDialog
    \/ DialogReportsClose
    \/ UnmountModal

ModalSpec == ModalInit /\ [][ModalNext]_vars

\* C39: for each opening of the ApprovalModal exactly one of onApprove and
\* onReject is invoked, exactly once: Approve invokes onApprove and never
\* onReject, also when the dialog then reports its close; Reject invokes
\* onReject once; a dismissal counts as one rejection; while the modal is
\* open neither has been invoked.
C39_OneCallbackPerOpening ==
    \A k \in 1..Len(modalLog) :
      LET opening == modalLog[k]
      IN /\ opening.closedBy = "open" => (opening.onApprove = 0 /\ opening.onReject = 0)
         /\ opening.closedBy = "approve" => (opening.onApprove = 1 /\ opening.onReject = 0)
         /\ opening.closedBy \in {"reject", "dismiss"} =>
              (opening.onApprove = 0 /\ opening.onReject = 1)

\* an opening was approved, the dialog reported its close, and a later
\* opening was dismissed
C39_Witness ==
    /\ Len(modalLog) = 2
    /\ modalLog[1].closedBy = "approve"
    /\ modalLog[1].closeReports = 1
    /\ modalLog[2].closedBy = "dismiss"
    /\ ~approvalModal.mounted

====
